---- MODULE Spec2Model ----
(***************************************************************************)
(* The action-resolution engine (src/src/game_engine.py) over the Redis    *)
(* backed state store (src/src/state_manager.py).                          *)
(*                                                                         *)
(* Python strings that the code lower-cases (item names, NPC names,        *)
(* directions) are sequences of ASCII codes, so that str.lower() is        *)
(* computed and not assumed.  Identifiers (game, room, item, npc, player   *)
(* ids, flag names and values) are TLA+ strings: the code only compares    *)
(* them for equality.  An Optional value is a sequence of length 0 or 1.   *)
(* A Python dict whose iteration order the code relies on is a sequence of *)
(* [k, v] pairs; the other dicts are functions.                            *)
(***************************************************************************)
EXTENDS Integers, Sequences, FiniteSets, TLC

VARIABLES
    state_key,   \* game id -> Optional snapshot: the Redis key game:{id}:state
    logs_key,    \* game id -> list, newest first: the Redis key game:{id}:logs
    hash_key,    \* game id -> the hashes game:{id}:rooms, :items, :npcs, :players, :flags
    now,         \* the wall clock read by datetime.now()
    calls,       \* how many calls so far changed the store or the clock
    faults,      \* how many calls so far had a store command raise
    updates,     \* how many update_entity calls were made so far
    last,        \* the call that produced this state and what it returned
    prev,        \* a summary of the call before it
    inflight     \* thread -> the call it is in, between its store commands

vars == <<state_key, logs_key, hash_key, now, calls, faults, updates, last, prev,
          inflight>>

-----------------------------------------------------------------------------
(* Bounds *)

\* No call is made after MaxCalls calls that changed the store or the clock.
MaxCalls == 3

\* At most MaxFaults calls of a run have a store command raise.
MaxFaults == 1

\* At most MaxUpdates update_entity calls are made in a run.
MaxUpdates == 1

\* At most MaxAppends add_log_entry calls are made in a run on the log alone.
MaxAppends == 4

\* At most MaxStoreCalls calls are made in a run on the store alone.
MaxStoreCalls == 4

\* At most MaxRaceCalls calls are begun in a run of the two threads.
MaxRaceCalls == 3

\* At most MaxStarts start_new_game calls are made in a run of starts.
MaxStarts == 2

-----------------------------------------------------------------------------
(* Strings *)

\* str.lower() on ASCII text
Lower(s) == [i \in DOMAIN s |-> IF s[i] \in 65..90 THEN s[i] + 32 ELSE s[i]]

n_gem    == <<103, 101, 109>>
n_Gem    == <<71, 101, 109>>
n_GEM    == <<71, 69, 77>>
n_lever  == <<108, 101, 118, 101, 114>>
n_Lever  == <<76, 101, 118, 101, 114>>
n_potion == <<112, 111, 116, 105, 111, 110>>
n_key    == <<107, 101, 121>>
n_ghost  == <<103, 104, 111, 115, 116>>
n_guard  == <<103, 117, 97, 114, 100>>
n_Guard  == <<71, 117, 97, 114, 100>>
n_north  == <<110, 111, 114, 116, 104>>
n_NORTH  == <<78, 79, 82, 84, 72>>
n_south  == <<115, 111, 117, 116, 104>>
n_west   == <<119, 101, 115, 116>>
n_Up     == <<85, 112>>
n_hall   == <<104, 97, 108, 108>>
n_yard   == <<121, 97, 114, 100>>
n_start  == <<115, 116, 97, 114, 116>>
n_vault  == <<118, 97, 117, 108, 116>>
n_won    == <<119, 111, 110>>
n_hello  == <<72, 101, 108, 108, 111>>
n_halt   == <<72, 97, 108, 116>>
n_pass   == <<80, 97, 115, 115>>
n_hero   == <<104, 101, 114, 111>>
n_KEY    == <<75, 69, 89>>
n_rune   == <<114, 117, 110, 101>>
n_pick   == <<112, 105, 99, 107>>
n_east   == <<101, 97, 115, 116>>
n_cell   == <<99, 101, 108, 108>>
n_altar  == <<97, 108, 116, 97, 114>>
n_sage   == <<115, 97, 103, 101>>
n_riddle == <<82, 105, 100, 100, 108, 101>>

\* dict.get(k) on an ordered dict: Optional value
DictGet(d, k) ==
    IF \E i \in DOMAIN d : d[i].k = k
    THEN <<d[CHOOSE i \in DOMAIN d : d[i].k = k].v>>
    ELSE <<>>

\* (mutant) remove() that removes nothing
ListRemove_nothing(l, x) == l

\* list.remove(x): removes the first occurrence
ListRemove(l, x) ==
    LET i == CHOOSE j \in DOMAIN l : l[j] = x /\ \A h \in 1..(j - 1) : l[h] # x
    IN  SubSeq(l, 1, i - 1) \o SubSeq(l, i + 1, Len(l))

Min(a, b) == IF a < b THEN a ELSE b

EmptyDict == <<>>

\* d[k] = v on an ordered dict: replaces in place, or appends a new key
DictSet(d, k, v) ==
    IF \E i \in DOMAIN d : d[i].k = k
    THEN [i \in DOMAIN d |-> IF d[i].k = k THEN [k |-> k, v |-> v] ELSE d[i]]
    ELSE Append(d, [k |-> k, v |-> v])

\* JSON scalars of the free-form dicts are strings; these three are Python's
\* True, False and None.
PyTrue  == "True"
PyFalse == "False"
PyNone  == "None"

\* bool(v) of such a scalar
Truthy(v) == v \notin {PyFalse, PyNone, ""}

-----------------------------------------------------------------------------
(* Scenario definitions: the scenario_config documents given to            *)
(* start_new_game.  Fields the engine never reads (description,            *)
(* state_flags, properties, stats, win_conditions, event_log) are left out.*)

NoRequirements == [keys |-> {}, required_items |-> <<>>, required_flags |-> <<>>]

\* Three items whose names differ only in case; the third cannot be taken.
\* No start_room: the player starts in the first declared room.
ScenarioGems ==
    [ title |-> n_gem,
      start_room |-> <<>>,
      global_flags |-> EmptyDict,
      rooms |-> <<
        [ id |-> "hall", name |-> n_hall,
          connections |-> << [k |-> n_north, v |-> "yard"],
                             [k |-> n_west,  v |-> "attic"],
                             [k |-> n_Up,    v |-> "yard"] >>,
          items |-> <<"gem1", "gem2", "gem3">>, npcs |-> <<>>,
          access_requirements |-> NoRequirements ],
        [ id |-> "yard", name |-> n_yard,
          connections |-> << [k |-> n_south, v |-> "hall"] >>,
          items |-> <<>>, npcs |-> <<>>,
          access_requirements |-> NoRequirements ] >>,
      items |-> <<
        [ id |-> "gem1", name |-> n_gem, location |-> "hall",
          takeable |-> TRUE, useable |-> TRUE, use_effects |-> EmptyDict ],
        [ id |-> "gem2", name |-> n_Gem, location |-> "hall",
          takeable |-> TRUE, useable |-> FALSE, use_effects |-> EmptyDict ],
        [ id |-> "gem3", name |-> n_GEM, location |-> "hall",
          takeable |-> FALSE, useable |-> FALSE, use_effects |-> EmptyDict ] >>,
      npcs |-> <<>> ]

\* The vault example of the specification: the vault is gated on the flag
\* vault_open, which the lever sets; a potion that is consumed; a guard.
ScenarioVault ==
    [ title |-> n_vault,
      start_room |-> <<"start">>,
      global_flags |-> EmptyDict,
      rooms |-> <<
        [ id |-> "vault", name |-> n_vault,
          connections |-> << [k |-> n_south, v |-> "start"] >>,
          items |-> <<>>, npcs |-> <<>>,
          access_requirements |->
            [ keys |-> {"required_flags"}, required_items |-> <<>>,
              required_flags |-> << [k |-> "vault_open", v |-> PyTrue] >> ] ],
        [ id |-> "start", name |-> n_start,
          connections |-> << [k |-> n_north, v |-> "vault"] >>,
          items |-> <<"lever", "potion">>, npcs |-> <<"guard">>,
          access_requirements |-> NoRequirements ] >>,
      items |-> <<
        [ id |-> "lever", name |-> n_Lever, location |-> "start",
          takeable |-> TRUE, useable |-> TRUE,
          use_effects |-> << [k |-> "set_flag",
                              v |-> << [k |-> "flag", v |-> "vault_open"],
                                       [k |-> "value", v |-> PyTrue] >>] >> ],
        [ id |-> "potion", name |-> n_potion, location |-> "start",
          takeable |-> TRUE, useable |-> TRUE,
          use_effects |-> << [k |-> "glow", v |-> << [k |-> "lumens", v |-> "9"] >>],
                             [k |-> "consume",
                              v |-> << [k |-> "consumed", v |-> PyTrue] >>] >> ] >>,
      npcs |-> <<
        [ id |-> "guard", name |-> n_Guard, location |-> "start",
          dialogue_state |-> "greet",
          dialogue_tree |-> << [k |-> "greet",
                                v |-> [text |-> <<n_halt>>, next_state |-> <<"warned">>]],
                               [k |-> "warned",
                                v |-> [text |-> <<n_pass>>, next_state |-> <<>>]] >> ] >> ]

Scenarios == {ScenarioGems, ScenarioVault}

\* Gated rooms: the armory asks for the key; the crypt for the key, written
\* in capitals, and for the flag lamp, which is set from the start; the tomb
\* for the key and for the flag seal, which the rune sets.  The pick unlocks
\* the crypt.  The altar cannot be taken, the key cannot be used, and a
\* guard and a sage stand in the cell: the guard's dialogue stays where it
\* is, the sage's goes on to a state that its tree does not have.
ScenarioGate ==
    [ title |-> n_cell,
      start_room |-> <<"cell">>,
      global_flags |-> << [k |-> "lamp", v |-> "lit"] >>,
      rooms |-> <<
        [ id |-> "cell", name |-> n_cell,
          connections |-> << [k |-> n_north, v |-> "armory"],
                             [k |-> n_east,  v |-> "crypt"],
                             [k |-> n_west,  v |-> "tomb"] >>,
          items |-> <<"key", "rune", "pick", "altar">>, npcs |-> <<"guard", "sage">>,
          access_requirements |-> NoRequirements ],
        [ id |-> "armory", name |-> n_hall,
          connections |-> << [k |-> n_south, v |-> "cell"] >>,
          items |-> <<>>, npcs |-> <<>>,
          access_requirements |->
            [ keys |-> {"required_items"}, required_items |-> <<n_key>>,
              required_flags |-> <<>> ] ],
        [ id |-> "crypt", name |-> n_vault,
          connections |-> << [k |-> n_west, v |-> "cell"] >>,
          items |-> <<>>, npcs |-> <<>>,
          access_requirements |->
            [ keys |-> {"required_items", "required_flags"},
              required_items |-> <<n_KEY>>,
              required_flags |-> << [k |-> "lamp", v |-> "lit"] >> ] ],
        [ id |-> "tomb", name |-> n_yard,
          connections |-> << [k |-> n_east, v |-> "cell"] >>,
          items |-> <<>>, npcs |-> <<>>,
          access_requirements |->
            [ keys |-> {"required_items", "required_flags"},
              required_items |-> <<n_key>>,
              required_flags |-> << [k |-> "seal", v |-> "open"] >> ] ] >>,
      items |-> <<
        [ id |-> "key", name |-> n_key, location |-> "cell",
          takeable |-> TRUE, useable |-> FALSE, use_effects |-> EmptyDict ],
        [ id |-> "rune", name |-> n_rune, location |-> "cell",
          takeable |-> TRUE, useable |-> TRUE,
          use_effects |-> << [k |-> "set_flag",
                              v |-> << [k |-> "flag", v |-> "seal"],
                                       [k |-> "value", v |-> "open"] >>] >> ],
        [ id |-> "pick", name |-> n_pick, location |-> "cell",
          takeable |-> TRUE, useable |-> TRUE,
          use_effects |-> << [k |-> "unlock_room",
                              v |-> << [k |-> "room_id", v |-> "crypt"] >>] >> ],
        [ id |-> "altar", name |-> n_altar, location |-> "cell",
          takeable |-> FALSE, useable |-> FALSE, use_effects |-> EmptyDict ] >>,
      npcs |-> <<
        [ id |-> "guard", name |-> n_Guard, location |-> "cell",
          dialogue_state |-> "greet",
          dialogue_tree |-> << [k |-> "greet",
                                v |-> [text |-> <<n_halt>>, next_state |-> <<>>]] >> ],
        [ id |-> "sage", name |-> n_sage, location |-> "cell",
          dialogue_state |-> "riddle",
          dialogue_tree |-> << [k |-> "riddle",
                                v |-> [text |-> <<n_riddle>>,
                                       next_state |-> <<"gone">>]] >> ] >> ]

-----------------------------------------------------------------------------
(* State store: StateManager over Redis.  db = [state, logs, hash] is the   *)
(* content of the keys game:{id}:state, game:{id}:logs and of the hashes   *)
(* game:{id}:rooms, :items, :npcs, :players and :flags.  f is what the     *)
(* Redis server does to the calls of one operation: f.load, f.save, f.aux  *)
(* and f.log say that the first GET, the SET, the last HSET of the save    *)
(* and the LPUSH of that operation raise.                                  *)

GameIds == {"g1", "g2"}
PLAYER_ID == "player_1"

NoFault == [load |-> FALSE, save |-> FALSE, aux |-> FALSE, log |-> FALSE]
Faults ==
    { NoFault,
      [NoFault EXCEPT !.load = TRUE],
      [NoFault EXCEPT !.save = TRUE],
      [NoFault EXCEPT !.aux = TRUE],
      [NoFault EXCEPT !.log = TRUE],
      [NoFault EXCEPT !.save = TRUE, !.log = TRUE] }

\* ltrim(logs_key, 0, 999) keeps this many entries
LOG_KEEP == 1000

EmptyHash == <<>>
NoHashes == [rooms |-> EmptyHash, items |-> EmptyHash, npcs |-> EmptyHash,
             players |-> EmptyHash, flags |-> EmptyHash]

EmptyDb == [ state |-> [g \in GameIds |-> <<>>],
             logs  |-> [g \in GameIds |-> <<>>],
             hash  |-> [g \in GameIds |-> NoHashes] ]

\* HSET key mapping: sets the given fields and keeps the others
HSet(h, mapping) ==
    [k \in DOMAIN h \cup DOMAIN mapping |->
        IF k \in DOMAIN mapping THEN mapping[k] ELSE h[k]]

\* The hash of one entity type after _save_entities
_save_entities(h, entities) ==
    IF DOMAIN entities # {} THEN HSet(h, entities) ELSE EmptyHash

\* An ordered dict as an HSET mapping
AsMapping(d) ==
    [k \in { d[i].k : i \in DOMAIN d } |->
        d[CHOOSE i \in DOMAIN d : d[i].k = k].v]

\* Returns [db, ok].  A call that raises leaves its key as it was, ends the
\* save there, and the exception is turned into the return value False.
save_game_state(db, game_id, state, f) ==
    IF f.save
    THEN [db |-> db, ok |-> FALSE]
    ELSE
      LET h == db.hash[game_id]
          entities == [h EXCEPT !.rooms   = _save_entities(@, state.rooms),
                                !.items   = _save_entities(@, state.items),
                                !.npcs    = _save_entities(@, state.npcs),
                                !.players = _save_entities(@, state.players)]
          written == [db EXCEPT !.state[game_id] = <<state>>,
                                !.hash[game_id] = entities]
      IN  IF f.aux
          THEN [db |-> written, ok |-> FALSE]
          ELSE [db |-> [written EXCEPT !.hash[game_id].flags =
                                          HSet(@, AsMapping(state.global_flags))],
                ok |-> TRUE]

\* Optional snapshot: None for a missing key and for a failed load alike
load_game_state(db, game_id, f) ==
    IF f.load THEN <<>> ELSE db.state[game_id]

\* (mutant) lpush without the ltrim
add_log_entry_untrimmed(db, game_id, entry, f) ==
    IF f.log
    THEN [db |-> db, ok |-> FALSE]
    ELSE [db |-> [db EXCEPT !.logs[game_id] = <<entry>> \o @], ok |-> TRUE]

\* lpush then ltrim 0..999
add_log_entry(db, game_id, entry, f) ==
    IF f.log
    THEN [db |-> db, ok |-> FALSE]
    ELSE LET pushed == <<entry>> \o db.logs[game_id]
         IN  [db |-> [db EXCEPT !.logs[game_id] =
                          SubSeq(pushed, 1, Min(Len(pushed), LOG_KEEP))],
              ok |-> TRUE]

\* lrange(logs_key, 0, limit - 1); a negative end index counts from the tail
get_game_history(db, game_id, limit) ==
    LET l   == db.logs[game_id]
        end == IF limit - 1 < 0 THEN Len(l) + (limit - 1) ELSE Min(limit - 1, Len(l) - 1)
    IN  SubSeq(l, 1, end + 1)

\* What get_game_history returns: the range, or [] when lrange raises
game_history(db, game_id, limit, f) ==
    IF f.load THEN <<>> ELSE get_game_history(db, game_id, limit)

game_exists(db, game_id) == db.state[game_id] # <<>>

\* Key names are ASCII text: "game:", the game id, ":" and the suffix
k_game    == <<103, 97, 109, 101, 58>>
k_state   == <<115, 116, 97, 116, 101>>
k_logs    == <<108, 111, 103, 115>>
k_rooms   == <<114, 111, 111, 109, 115>>
k_items   == <<105, 116, 101, 109, 115>>
k_npcs    == <<110, 112, 99, 115>>
k_players == <<112, 108, 97, 121, 101, 114, 115>>
k_flags   == <<102, 108, 97, 103, 115>>
k_star    == <<42>>

\* f"game:{game_id}:{suffix}"
KeyName(game_id, suffix) == k_game \o game_id \o <<58>> \o suffix

\* Where the character class that opens at p[i] = "[" ends: the index of
\* the first "]" after it, or Len(p) when the class is not closed
ClassEnd(p, i) ==
    IF \E j \in (i + 1)..Len(p) : p[j] = 93
    THEN CHOOSE j \in (i + 1)..Len(p) :
            p[j] = 93 /\ \A h \in (i + 1)..(j - 1) : p[h] # 93
    ELSE Len(p)

\* Character c is in the class p[i..j]: "[", an optional "^", then single
\* characters and ranges x-y, up to the closing "]"
ClassHas(p, i, j, c) ==
    LET negated == i + 1 <= Len(p) /\ p[i + 1] = 94
        from    == IF negated THEN i + 2 ELSE i + 1
        to      == IF p[j] = 93 THEN j - 1 ELSE j
        single  == \E h \in from..to : p[h] = c
        ranged  == \E h \in from..(to - 2) :
                      /\ p[h + 1] = 45
                      /\ \/ p[h] <= c /\ c <= p[h + 2]
                         \/ p[h + 2] <= c /\ c <= p[h]
    IN  (single \/ ranged) # negated

\* The glob match of the KEYS command: pattern p from index i against text
\* t from index j.  "*" is any run of characters, "?" any one character,
\* "[...]" one character of the class, "\x" the character x.
RECURSIVE GlobMatch(_, _, _, _)
GlobMatch(p, i, t, j) ==
    IF i > Len(p) THEN j > Len(t)
    ELSE IF p[i] = 42
    THEN \E h \in j..(Len(t) + 1) : GlobMatch(p, i + 1, t, h)
    ELSE IF j > Len(t) THEN FALSE
    ELSE IF p[i] = 63 THEN GlobMatch(p, i + 1, t, j + 1)
    ELSE IF p[i] = 91
    THEN /\ ClassHas(p, i, ClassEnd(p, i), t[j])
         /\ GlobMatch(p, ClassEnd(p, i) + 1, t, j + 1)
    ELSE IF p[i] = 92 /\ i < Len(p)
    THEN p[i + 1] = t[j] /\ GlobMatch(p, i + 2, t, j + 1)
    ELSE p[i] = t[j] /\ GlobMatch(p, i + 1, t, j + 1)

\* keys(f"game:{game_id}:*") returns the key of game g with this suffix
KeyFound(game_id, g, suffix) ==
    GlobMatch(KeyName(game_id, k_star), 1, KeyName(g, suffix), 1)

\* Returns [db, ok]: every key that keys() returns is deleted.  f.load says
\* that the KEYS command raises, f.save that the DEL does.
delete_game(db, game_id, f) ==
    IF f.load \/ f.save
    THEN [db |-> db, ok |-> FALSE]
    ELSE
      LET Gone(g, suffix) == KeyFound(game_id, g, suffix)
      IN  [ db |->
              [ state |-> [g \in DOMAIN db.state |->
                             IF Gone(g, k_state) THEN <<>> ELSE db.state[g]],
                logs  |-> [g \in DOMAIN db.logs |->
                             IF Gone(g, k_logs) THEN <<>> ELSE db.logs[g]],
                hash  |-> [g \in DOMAIN db.hash |->
                             [ rooms   |-> IF Gone(g, k_rooms) THEN EmptyHash
                                           ELSE db.hash[g].rooms,
                               items   |-> IF Gone(g, k_items) THEN EmptyHash
                                           ELSE db.hash[g].items,
                               npcs    |-> IF Gone(g, k_npcs) THEN EmptyHash
                                           ELSE db.hash[g].npcs,
                               players |-> IF Gone(g, k_players) THEN EmptyHash
                                           ELSE db.hash[g].players,
                               flags   |-> IF Gone(g, k_flags) THEN EmptyHash
                                           ELSE db.hash[g].flags ]] ],
            ok |-> TRUE ]

-----------------------------------------------------------------------------
(* Game engine.  Every operation takes the store content db and the clock  *)
(* clk and returns                                                         *)
(*   [db, now, result, io, matched, value]:                                *)
(* the store and the clock after the call, the ActionResult (success and   *)
(* the message template), what the store calls did, the id of the item or  *)
(* NPC the name resolved to (Optional), and the returned payload of the    *)
(* calls that return no ActionResult (Optional).  datetime.now() returns   *)
(* the clock, which then moves on.                                         *)

IoNone == [load |-> "ok", save |-> "none", log |-> "none"]

LoadIo(db, game_id, f) ==
    IF f.load THEN "failed" ELSE IF db.state[game_id] = <<>> THEN "missing" ELSE "ok"

\* What save_game_state did: "failed" wrote nothing, "partial" wrote the
\* snapshot and returned False
SaveIo(ok, f) == IF ok THEN "ok" ELSE IF f.save THEN "failed" ELSE "partial"

\* (mutant) a rejection that is written to the log
Reject_logged(db, clk, game_id, f, msg) ==
    [ db |-> add_log_entry(db, game_id,
                 [ timestamp |-> clk, turn |-> 0, action |-> "rejected",
                   player_id |-> PLAYER_ID, message |-> msg ], NoFault).db,
      now |-> clk,
      result |-> [success |-> FALSE, message |-> msg],
      io |-> [IoNone EXCEPT !.load = LoadIo(db, game_id, f)],
      matched |-> <<>>, value |-> <<>> ]

\* A call that returns before it writes anything
Reject(db, clk, game_id, f, msg) ==
    [ db |-> db, now |-> clk,
      result |-> [success |-> FALSE, message |-> msg],
      io |-> [IoNone EXCEPT !.load = LoadIo(db, game_id, f)],
      matched |-> <<>>, value |-> <<>> ]

\* (mutant) the guard without the test of active
Unavailable_missing(loaded) == loaded = <<>>

\* "not state or not state.active": the guard that opens every operation but
\* end_game
Unavailable(loaded) == loaded = <<>> \/ ~loaded[1].active

\* (mutant) the lookup without direction.lower()
ResolveDirection_exact(current_room, direction) ==
    DictGet(current_room.connections, direction)

\* current_room.connections.get(direction.lower()): Optional room id
ResolveDirection(current_room, direction) ==
    DictGet(current_room.connections, Lower(direction))

\* (mutant) a move that leaves the player in no room of the table
Moved_adrift(state, player_id, target_room_id, clk) ==
    [state EXCEPT !.players[player_id].location = "limbo",
                  !.current_turn = @ + 1,
                  !.last_action_at = clk]

\* The snapshot after the player has moved
Moved(state, player_id, target_room_id, clk) ==
    [state EXCEPT !.players[player_id].location = target_room_id,
                  !.current_turn = @ + 1,
                  !.last_action_at = clk]

\* (mutant) a take that sweeps the whole room into the inventory
Taken_all(state, player_id, item_id, clk) ==
    [state EXCEPT
        !.rooms[state.players[player_id].location].items = <<>>,
        !.players[player_id].inventory =
            @ \o state.rooms[state.players[player_id].location].items,
        !.items[item_id].location = player_id,
        !.current_turn = @ + 1,
        !.last_action_at = clk]

\* The snapshot after the item went from the player's room to the inventory
Taken(state, player_id, item_id, clk) ==
    [state EXCEPT
        !.rooms[state.players[player_id].location].items = ListRemove(@, item_id),
        !.players[player_id].inventory = Append(@, item_id),
        !.items[item_id].location = player_id,
        !.current_turn = @ + 1,
        !.last_action_at = clk]

\* (mutant) a drop that leaves the item's location as it was
Dropped_unlocated(state, player_id, item_id, clk) ==
    [state EXCEPT
        !.players[player_id].inventory = ListRemove(@, item_id),
        !.rooms[state.players[player_id].location].items = Append(@, item_id),
        !.current_turn = @ + 1,
        !.last_action_at = clk]

\* The snapshot after the item went from the inventory to the player's room
Dropped(state, player_id, item_id, clk) ==
    [state EXCEPT
        !.players[player_id].inventory = ListRemove(@, item_id),
        !.rooms[state.players[player_id].location].items = Append(@, item_id),
        !.items[item_id].location = state.rooms[state.players[player_id].location].id,
        !.current_turn = @ + 1,
        !.last_action_at = clk]

\* (mutant) end_game that flips active
Ended_toggles(state, clk) == [state EXCEPT !.active = ~@, !.last_action_at = clk]

\* (mutant) end_game that counts as a turn
Ended_counts(state, clk) ==
    [state EXCEPT !.active = FALSE, !.current_turn = @ + 1, !.last_action_at = clk]

\* The snapshot end_game saves
Ended(state, clk) == [state EXCEPT !.active = FALSE, !.last_action_at = clk]

\* (mutant) every item can be taken
Takeable_any(item) == TRUE

\* "if not item.takeable" lets the take through
Takeable(item) == item.takeable

\* First id of the list ids that is in the table and whose name matches
\* name case-insensitively: Optional id
FindByName(ids, table, name) ==
    LET hits == { i \in DOMAIN ids :
                    /\ ids[i] \in DOMAIN table
                    /\ Lower(table[ids[i]].name) = Lower(name) }
    IN  IF hits = {} THEN <<>>
        ELSE <<ids[CHOOSE i \in hits : \A j \in hits : i <= j]>>

\* (mutant) the entry goes to the log of every game
_log_action_everywhere(db, clk, game_id, player_id, action, message, f) ==
    LET loaded == load_game_state(db, game_id, NoFault)
    IN  IF loaded = <<>>
        THEN [db |-> db, now |-> clk, ok |-> FALSE]
        ELSE LET log_entry == [ timestamp |-> clk,
                                turn |-> loaded[1].current_turn,
                                action |-> action,
                                player_id |-> player_id,
                                message |-> message ]
                 added == add_log_entry(db, game_id, log_entry, f)
             IN  [db |-> [added.db EXCEPT !.logs =
                             [h \in DOMAIN @ |-> IF h = game_id THEN @[h]
                                                 ELSE <<log_entry>> \o @[h]]],
                  now |-> clk + 1, ok |-> added.ok]

\* (mutant) the entry carries the turn that comes next
_log_action_ahead(db, clk, game_id, player_id, action, message, f) ==
    LET loaded == load_game_state(db, game_id, NoFault)
    IN  IF loaded = <<>>
        THEN [db |-> db, now |-> clk, ok |-> FALSE]
        ELSE LET log_entry == [ timestamp |-> clk,
                                turn |-> loaded[1].current_turn + 1,
                                action |-> action,
                                player_id |-> player_id,
                                message |-> message ]
                 added == add_log_entry(db, game_id, log_entry, f)
             IN  [db |-> added.db, now |-> clk + 1, ok |-> added.ok]

\* Returns [db, now, ok]
_log_action(db, clk, game_id, player_id, action, message, f) ==
    LET loaded == load_game_state(db, game_id, NoFault)
    IN  IF loaded = <<>>
        THEN [db |-> db, now |-> clk, ok |-> FALSE]
        ELSE LET log_entry == [ timestamp |-> clk,
                                turn |-> loaded[1].current_turn,
                                action |-> action,
                                player_id |-> player_id,
                                message |-> message ]
                 added == add_log_entry(db, game_id, log_entry, f)
             IN  [db |-> added.db, now |-> clk + 1, ok |-> added.ok]

\* (mutant) the check that looks at the required items only
_check_access_requirements_items(state, player_id, requirements) ==
    IF requirements.keys = {} THEN TRUE
    ELSE IF player_id \notin DOMAIN state.players THEN FALSE
    ELSE
      LET player == state.players[player_id]
          player_items == { Lower(state.items[player.inventory[i]].name) :
                              i \in { j \in DOMAIN player.inventory :
                                        player.inventory[j] \in DOMAIN state.items } }
      IN  "required_items" \in requirements.keys =>
                \A i \in DOMAIN requirements.required_items :
                    Lower(requirements.required_items[i]) \in player_items

_check_access_requirements(state, player_id, requirements) ==
    IF requirements.keys = {} THEN TRUE
    ELSE IF player_id \notin DOMAIN state.players THEN FALSE
    ELSE
      LET player == state.players[player_id]
          player_items == { Lower(state.items[player.inventory[i]].name) :
                              i \in { j \in DOMAIN player.inventory :
                                        player.inventory[j] \in DOMAIN state.items } }
          FlagGet(k) == LET g == DictGet(state.global_flags, k)
                        IN  IF g = <<>> THEN PyNone ELSE g[1]
      IN  /\ "required_items" \in requirements.keys =>
                \A i \in DOMAIN requirements.required_items :
                    Lower(requirements.required_items[i]) \in player_items
          /\ "required_flags" \in requirements.keys =>
                \A i \in DOMAIN requirements.required_flags :
                    FlagGet(requirements.required_flags[i].k)
                        = requirements.required_flags[i].v

\* Returns [db, now, game_id]; game_id is the generated uuid, "" on an exception
start_new_game(db, clk, scenario_config, player_name, uuid, f) ==
    LET cfg == scenario_config
        rooms == [ id \in { cfg.rooms[i].id : i \in DOMAIN cfg.rooms } |->
                     cfg.rooms[CHOOSE i \in DOMAIN cfg.rooms :
                         /\ cfg.rooms[i].id = id
                         /\ \A j \in DOMAIN cfg.rooms : cfg.rooms[j].id = id => j <= i] ]
        items == [ id \in { cfg.items[i].id : i \in DOMAIN cfg.items } |->
                     cfg.items[CHOOSE i \in DOMAIN cfg.items :
                         /\ cfg.items[i].id = id
                         /\ \A j \in DOMAIN cfg.items : cfg.items[j].id = id => j <= i] ]
        npcs  == [ id \in { cfg.npcs[i].id : i \in DOMAIN cfg.npcs } |->
                     cfg.npcs[CHOOSE i \in DOMAIN cfg.npcs :
                         /\ cfg.npcs[i].id = id
                         /\ \A j \in DOMAIN cfg.npcs : cfg.npcs[j].id = id => j <= i] ]
        start_room == IF cfg.start_room # <<>> THEN cfg.start_room[1]
                      ELSE IF cfg.rooms # <<>> THEN cfg.rooms[1].id ELSE ""
        player == [ id |-> PLAYER_ID, name |-> player_name,
                    location |-> start_room, inventory |-> <<>> ]
        game_state == [ game_id |-> uuid, title |-> cfg.title,
                        current_turn |-> 0, active |-> TRUE,
                        players |-> [p \in {PLAYER_ID} |-> player],
                        rooms |-> rooms, items |-> items, npcs |-> npcs,
                        global_flags |-> cfg.global_flags,
                        created_at |-> clk, last_action_at |-> clk + 1 ]
        sv == save_game_state(db, uuid, game_state, f)
        lg == _log_action(sv.db, clk + 2, uuid, PLAYER_ID, "start_game",
                          [fmt |-> "Started new game: {title}", args |-> <<cfg.title>>], f)
    IN  [db |-> lg.db, now |-> lg.now, game_id |-> uuid]

move_player(db, clk, game_id, player_id, direction, f) ==
    LET loaded == load_game_state(db, game_id, f)
    IN
    IF Unavailable(loaded)
    THEN Reject(db, clk, game_id, f, "Game not found or inactive")
    ELSE LET state == loaded[1] IN
    IF player_id \notin DOMAIN state.players
    THEN Reject(db, clk, game_id, f, "Player not found")
    ELSE LET player == state.players[player_id] IN
    IF player.location \notin DOMAIN state.rooms
    THEN Reject(db, clk, game_id, f, "Current room not found")
    ELSE LET current_room == state.rooms[player.location]
             target_room_id == ResolveDirection(current_room, direction) IN
    IF target_room_id = <<>> \/ target_room_id[1] = ""
    THEN Reject(db, clk, game_id, f, "You cannot go {direction} from here.")
    ELSE IF target_room_id[1] \notin DOMAIN state.rooms
    THEN Reject(db, clk, game_id, f, "Target room not found")
    ELSE LET target_room == state.rooms[target_room_id[1]] IN
    IF /\ target_room.access_requirements.keys # {}
       /\ ~_check_access_requirements(state, player_id, target_room.access_requirements)
    THEN Reject(db, clk, game_id, f, "You cannot access that room yet.")
    ELSE
      LET moved == Moved(state, player_id, target_room_id[1], clk)
          sv == save_game_state(db, game_id, moved, f)
          lg == _log_action(sv.db, clk + 1, game_id, player_id, "move",
                            [fmt |-> "Moved {direction} to {target_room.name}",
                             args |-> <<direction, target_room.name>>], f)
      IN  [ db |-> lg.db, now |-> lg.now,
            result |-> [success |-> TRUE,
                        message |-> "You go {direction} to {target_room.name}."],
            io |-> [load |-> "ok",
                    save |-> SaveIo(sv.ok, f),
                    log |-> IF lg.ok THEN "ok" ELSE "failed"],
            matched |-> <<>>, value |-> <<>> ]

take_item(db, clk, game_id, player_id, item_name, f) ==
    LET loaded == load_game_state(db, game_id, f)
    IN
    IF Unavailable(loaded)
    THEN Reject(db, clk, game_id, f, "Game not found or inactive")
    ELSE LET state == loaded[1] IN
    IF player_id \notin DOMAIN state.players
    THEN Reject(db, clk, game_id, f, "Player not found")
    ELSE LET player == state.players[player_id] IN
    IF player.location \notin DOMAIN state.rooms
    THEN Reject(db, clk, game_id, f, "Current room not found")
    ELSE LET current_room == state.rooms[player.location]
             item_id == FindByName(current_room.items, state.items, item_name) IN
    IF item_id = <<>>
    THEN Reject(db, clk, game_id, f, "There is no {item_name} here.")
    ELSE LET item == state.items[item_id[1]] IN
    IF ~Takeable(item)
    THEN [Reject(db, clk, game_id, f, "You cannot take the {item_name}.")
             EXCEPT !.matched = item_id]
    ELSE
      LET taken == Taken(state, player_id, item_id[1], clk)
          sv == save_game_state(db, game_id, taken, f)
          lg == _log_action(sv.db, clk + 1, game_id, player_id, "take",
                            [fmt |-> "Took {item.name}", args |-> <<item.name>>], f)
      IN  [ db |-> lg.db, now |-> lg.now,
            result |-> [success |-> TRUE, message |-> "You take the {item.name}."],
            io |-> [load |-> "ok",
                    save |-> SaveIo(sv.ok, f),
                    log |-> IF lg.ok THEN "ok" ELSE "failed"],
            matched |-> item_id, value |-> <<>> ]

drop_item(db, clk, game_id, player_id, item_name, f) ==
    LET loaded == load_game_state(db, game_id, f)
    IN
    IF Unavailable(loaded)
    THEN Reject(db, clk, game_id, f, "Game not found or inactive")
    ELSE LET state == loaded[1] IN
    IF player_id \notin DOMAIN state.players
    THEN Reject(db, clk, game_id, f, "Player not found")
    ELSE LET player == state.players[player_id] IN
    IF player.location \notin DOMAIN state.rooms
    THEN Reject(db, clk, game_id, f, "Current room not found")
    ELSE LET current_room == state.rooms[player.location]
             item_id == FindByName(player.inventory, state.items, item_name) IN
    IF item_id = <<>>
    THEN Reject(db, clk, game_id, f, "You don't have a {item_name}.")
    ELSE
      LET item == state.items[item_id[1]]
          dropped == Dropped(state, player_id, item_id[1], clk)
          sv == save_game_state(db, game_id, dropped, f)
          lg == _log_action(sv.db, clk + 1, game_id, player_id, "drop",
                            [fmt |-> "Dropped {item.name}", args |-> <<item.name>>], f)
      IN  [ db |-> lg.db, now |-> lg.now,
            result |-> [success |-> TRUE, message |-> "You drop the {item.name}."],
            io |-> [load |-> "ok",
                    save |-> SaveIo(sv.ok, f),
                    log |-> IF lg.ok THEN "ok" ELSE "failed"],
            matched |-> item_id, value |-> <<>> ]

\* The loop over item.use_effects, from effect number i on: the snapshot
\* after the effects.  Unknown effect kinds fall through all branches.
RECURSIVE ApplyUseEffects(_, _, _, _, _)

\* (mutant) every effect, of whatever kind, is recorded as a flag
ApplyUseEffects_flagging(state, player_id, item_id, use_effects, i) ==
    [state EXCEPT !.global_flags =
        @ \o [j \in DOMAIN use_effects |-> [k |-> use_effects[j].k, v |-> PyTrue]]]

\* The snapshot after the effects from number i on
ApplyUseEffects(state, player_id, item_id, use_effects, i) ==
    IF i > Len(use_effects) THEN state
    ELSE
      LET effect_type == use_effects[i].k
          effect_data == use_effects[i].v
          Get(k, default) == LET g == DictGet(effect_data, k)
                             IN  IF g = <<>> THEN default ELSE g[1]
          after ==
            IF effect_type = "unlock_room"
            THEN IF Get("room_id", PyNone) \in DOMAIN state.rooms
                 THEN [state EXCEPT
                         !.rooms[Get("room_id", PyNone)].access_requirements =
                             NoRequirements]
                 ELSE state
            ELSE IF effect_type = "set_flag"
            THEN [state EXCEPT
                    !.global_flags = DictSet(@, Get("flag", PyNone), Get("value", PyTrue))]
            ELSE IF effect_type = "consume"
            THEN IF Truthy(Get("consumed", PyFalse))
                 THEN [state EXCEPT
                         !.players[player_id].inventory = ListRemove(@, item_id),
                         !.items = [x \in DOMAIN state.items \ {item_id} |->
                                        state.items[x]]]
                 ELSE state
            ELSE state
      IN  ApplyUseEffects(after, player_id, item_id, use_effects, i + 1)

\* target is only quoted in the log message
use_item(db, clk, game_id, player_id, item_name, f) ==
    LET loaded == load_game_state(db, game_id, f)
    IN
    IF Unavailable(loaded)
    THEN Reject(db, clk, game_id, f, "Game not found or inactive")
    ELSE LET state == loaded[1] IN
    IF player_id \notin DOMAIN state.players
    THEN Reject(db, clk, game_id, f, "Player not found")
    ELSE LET player == state.players[player_id]
             item_id == FindByName(player.inventory, state.items, item_name) IN
    IF item_id = <<>>
    THEN Reject(db, clk, game_id, f, "You don't have a {item_name}.")
    ELSE LET item == state.items[item_id[1]] IN
    IF ~item.useable
    THEN [Reject(db, clk, game_id, f, "You cannot use the {item_name}.")
             EXCEPT !.matched = item_id]
    ELSE
      LET effected == ApplyUseEffects(state, player_id, item_id[1], item.use_effects, 1)
          used == [effected EXCEPT !.current_turn = @ + 1, !.last_action_at = clk]
          sv == save_game_state(db, game_id, used, f)
          lg == _log_action(sv.db, clk + 1, game_id, player_id, "use",
                            [fmt |-> "Used {item.name}", args |-> <<item.name>>], f)
      IN  [ db |-> lg.db, now |-> lg.now,
            result |-> [success |-> TRUE, message |-> "You use the {item.name}."],
            io |-> [load |-> "ok",
                    save |-> SaveIo(sv.ok, f),
                    log |-> IF lg.ok THEN "ok" ELSE "failed"],
            matched |-> item_id, value |-> <<>> ]

\* message is never read
talk_to_npc(db, clk, game_id, player_id, npc_name, f) ==
    LET loaded == load_game_state(db, game_id, f)
    IN
    IF Unavailable(loaded)
    THEN Reject(db, clk, game_id, f, "Game not found or inactive")
    ELSE LET state == loaded[1] IN
    IF player_id \notin DOMAIN state.players
    THEN Reject(db, clk, game_id, f, "Player not found")
    ELSE LET player == state.players[player_id] IN
    IF player.location \notin DOMAIN state.rooms
    THEN Reject(db, clk, game_id, f, "Current room not found")
    ELSE LET current_room == state.rooms[player.location]
             npc_id == FindByName(current_room.npcs, state.npcs, npc_name) IN
    IF npc_id = <<>>
    THEN Reject(db, clk, game_id, f, "There is no {npc_name} here.")
    ELSE
      LET npc == state.npcs[npc_id[1]]
          dialogue_data == DictGet(npc.dialogue_tree, npc.dialogue_state)
          response == IF dialogue_data # <<>> /\ dialogue_data[1].text # <<>>
                      THEN dialogue_data[1].text[1]
                      ELSE n_hello
          spoken == IF dialogue_data # <<>> /\ dialogue_data[1].next_state # <<>>
                    THEN [state EXCEPT !.npcs[npc_id[1]].dialogue_state =
                                           dialogue_data[1].next_state[1]]
                    ELSE state
          talked == [spoken EXCEPT !.current_turn = @ + 1, !.last_action_at = clk]
          sv == save_game_state(db, game_id, talked, f)
          lg == _log_action(sv.db, clk + 1, game_id, player_id, "talk",
                            [fmt |-> "Talked to {npc.name}", args |-> <<npc.name>>], f)
      IN  [ db |-> lg.db, now |-> lg.now,
            result |-> [success |-> TRUE, message |-> "{npc.name}: {response}"],
            io |-> [load |-> "ok",
                    save |-> SaveIo(sv.ok, f),
                    log |-> IF lg.ok THEN "ok" ELSE "failed"],
            matched |-> npc_id, value |-> <<response>> ]

\* get_game_history's default limit, and the cut of major_events
HISTORY_LIMIT == 100
MAJOR_EVENTS == 10

\* result.success says that a summary, not an {"error": ...} dict, is returned
end_game(db, clk, game_id, outcome, f) ==
    LET loaded == load_game_state(db, game_id, f)
    IN
    IF loaded = <<>>
    THEN Reject(db, clk, game_id, f, "Game not found")
    ELSE
      LET state == loaded[1]
          ended == Ended(state, clk)
          history == get_game_history(db, game_id, HISTORY_LIMIT)
          major == SelectSeq(history,
                       LAMBDA e : e.action \in {"use", "talk", "start_game"})
          first == CHOOSE p \in DOMAIN ended.players : TRUE
          summary == [ game_id |-> game_id, title |-> ended.title,
                       outcome |-> outcome,
                       total_turns |-> ended.current_turn,
                       duration |-> ended.last_action_at - ended.created_at,
                       final_player_location |->
                           IF DOMAIN ended.players # {}
                           THEN ended.players[first].location ELSE "",
                       items_collected |->
                           IF DOMAIN ended.players # {}
                           THEN Len(ended.players[first].inventory) ELSE 0,
                       major_events |->
                           [i \in 1..Min(Len(major), MAJOR_EVENTS) |-> major[i].message] ]
          sv == save_game_state(db, game_id, ended, f)
          lg == IF DOMAIN ended.players # {}
                THEN _log_action(sv.db, clk + 1, game_id, first, "end_game",
                                 [fmt |-> "Game ended: {outcome}", args |-> <<outcome>>], f)
                ELSE [db |-> sv.db, now |-> clk + 1, ok |-> FALSE]
      IN  [ db |-> lg.db, now |-> lg.now,
            result |-> [success |-> TRUE, message |-> "summary"],
            io |-> [load |-> "ok",
                    save |-> SaveIo(sv.ok, f),
                    log |-> IF lg.ok THEN "ok" ELSE "failed"],
            matched |-> <<>>, value |-> <<summary>> ]

\* Names of the listed ids that are in the table, in list order
NamesOf(ids, table) ==
    LET present == SelectSeq(ids, LAMBDA x : x \in DOMAIN table)
    IN  [i \in DOMAIN present |-> table[present[i]].name]

\* value is the description's parts: room name, item names, NPC names, exits
look_around(db, clk, game_id, player_id, f) ==
    LET loaded == load_game_state(db, game_id, f)
    IN
    IF Unavailable(loaded)
    THEN Reject(db, clk, game_id, f, "Game not found or inactive")
    ELSE LET state == loaded[1] IN
    IF player_id \notin DOMAIN state.players
    THEN Reject(db, clk, game_id, f, "Player not found")
    ELSE LET player == state.players[player_id] IN
    IF player.location \notin DOMAIN state.rooms
    THEN Reject(db, clk, game_id, f, "Current room not found")
    ELSE
      LET current_room == state.rooms[player.location]
          description ==
            [ name |-> current_room.name,
              items_here |-> NamesOf(current_room.items, state.items),
              npcs_here |-> NamesOf(current_room.npcs, state.npcs),
              exits |-> [i \in DOMAIN current_room.connections |->
                            current_room.connections[i].k] ]
      IN  [ db |-> db, now |-> clk,
            result |-> [success |-> TRUE, message |-> "description"],
            io |-> IoNone, matched |-> <<>>, value |-> <<description>> ]

\* (mutant) a look at the inventory that counts as a turn
check_inventory_counted(db, clk, game_id, player_id, f) ==
    LET loaded == load_game_state(db, game_id, f)
    IN
    IF Unavailable(loaded)
    THEN [Reject(db, clk, game_id, f, "[]") EXCEPT !.value = << <<>> >>]
    ELSE [ db |-> save_game_state(db, game_id,
                      [loaded[1] EXCEPT !.current_turn = @ + 1], NoFault).db,
           now |-> clk,
           result |-> [success |-> TRUE, message |-> "inventory"],
           io |-> IoNone, matched |-> <<>>, value |-> << <<>> >> ]

\* value is the list of [name, useable]; an empty list on every failure
check_inventory(db, clk, game_id, player_id, f) ==
    LET loaded == load_game_state(db, game_id, f)
    IN
    IF Unavailable(loaded)
    THEN [Reject(db, clk, game_id, f, "[]") EXCEPT !.value = << <<>> >>]
    ELSE LET state == loaded[1] IN
    IF player_id \notin DOMAIN state.players
    THEN [Reject(db, clk, game_id, f, "[]") EXCEPT !.value = << <<>> >>]
    ELSE
      LET player == state.players[player_id]
          held == SelectSeq(player.inventory, LAMBDA x : x \in DOMAIN state.items)
          inventory == [i \in DOMAIN held |->
                           [ name |-> state.items[held[i]].name,
                             useable |-> state.items[held[i]].useable ]]
      IN  [ db |-> db, now |-> clk,
            result |-> [success |-> TRUE, message |-> "inventory"],
            io |-> IoNone, matched |-> <<>>, value |-> <<inventory>> ]

\* "drop x" then, if useable, "use x" for the inventory items from number i on
RECURSIVE InventoryActions(_, _, _)

\* (mutant) "drop x" alone for every inventory item
InventoryActions_drops(held, items, i) ==
    [j \in 1..(Len(held) - i + 1) |->
        [verb |-> "drop", arg |-> items[held[j + i - 1]].name]]

\* The inventory actions from item number i on
InventoryActions(held, items, i) ==
    IF i > Len(held) THEN <<>>
    ELSE << [verb |-> "drop", arg |-> items[held[i]].name] >>
         \o (IF items[held[i]].useable
             THEN << [verb |-> "use", arg |-> items[held[i]].name] >> ELSE <<>>)
         \o InventoryActions(held, items, i + 1)

\* value is the list of actions as [verb, arg]; an empty list on every failure
get_available_actions(db, clk, game_id, player_id, f) ==
    LET loaded == load_game_state(db, game_id, f)
    IN
    IF Unavailable(loaded)
    THEN [Reject(db, clk, game_id, f, "[]") EXCEPT !.value = << <<>> >>]
    ELSE LET state == loaded[1] IN
    IF player_id \notin DOMAIN state.players
    THEN [Reject(db, clk, game_id, f, "[]") EXCEPT !.value = << <<>> >>]
    ELSE LET player == state.players[player_id] IN
    IF player.location \notin DOMAIN state.rooms
    THEN [Reject(db, clk, game_id, f, "[]") EXCEPT !.value = << <<>> >>]
    ELSE
      LET current_room == state.rooms[player.location]
          here == SelectSeq(current_room.items,
                      LAMBDA x : x \in DOMAIN state.items /\ state.items[x].takeable)
          held == SelectSeq(player.inventory, LAMBDA x : x \in DOMAIN state.items)
          people == SelectSeq(current_room.npcs, LAMBDA x : x \in DOMAIN state.npcs)
          actions ==
               << [verb |-> "look around", arg |-> <<>>] >>
            \o [i \in DOMAIN current_room.connections |->
                   [verb |-> "go", arg |-> current_room.connections[i].k]]
            \o [i \in DOMAIN here |->
                   [verb |-> "take", arg |-> state.items[here[i]].name]]
            \o InventoryActions(held, state.items, 1)
            \o [i \in DOMAIN people |->
                   [verb |-> "talk to", arg |-> state.npcs[people[i]].name]]
            \o << [verb |-> "check inventory", arg |-> <<>>] >>
      IN  [ db |-> db, now |-> clk,
            result |-> [success |-> TRUE, message |-> "actions"],
            io |-> IoNone, matched |-> <<>>, value |-> <<actions>> ]

\* model_copy(update=data): the entity with the fields of data replaced
ModelCopy(entity, data) ==
    [k \in DOMAIN entity |-> IF k \in DOMAIN data THEN data[k] ELSE entity[k]]

\* Returns as the engine operations do; result.success is the returned bool.
\* f.load says that the first HSET raises, which ends the call.
update_entity(db, clk, game_id, entity_type, entity_id, data, f) ==
    IF f.load
    THEN [Reject(db, clk, game_id, f, "False") EXCEPT !.io.load = "ok"]
    ELSE
      LET hashed == [db EXCEPT !.hash[game_id][entity_type] =
                                   HSet(@, [k \in {entity_id} |-> data])]
          loaded == load_game_state(hashed, game_id, NoFault)
      IN
      IF loaded = <<>>
      THEN [ db |-> hashed, now |-> clk,
             result |-> [success |-> TRUE, message |-> "True"],
             io |-> [IoNone EXCEPT !.load = "missing"],
             matched |-> <<>>, value |-> <<>> ]
      ELSE
        LET state == loaded[1]
            copied == IF entity_type \in {"rooms", "items", "npcs", "players"}
                         /\ entity_id \in DOMAIN state[entity_type]
                      THEN [state EXCEPT ![entity_type][entity_id] = ModelCopy(@, data)]
                      ELSE state
            updated == [copied EXCEPT !.last_action_at = clk]
            sv == save_game_state(hashed, game_id, updated, f)
        IN  [ db |-> sv.db, now |-> clk + 1,
              result |-> [success |-> TRUE, message |-> "True"],
              io |-> [load |-> "ok", save |-> SaveIo(sv.ok, f), log |-> "none"],
              matched |-> <<>>, value |-> <<>> ]

-----------------------------------------------------------------------------
(* The system: one engine over one store, called by one client at a time   *)
(* (each call runs to completion before the next starts).                  *)

Db == [state |-> state_key, logs |-> logs_key, hash |-> hash_key]

\* Who calls, on which game, and what the store does to the call: the
\* player of game g1 under every fault, and an unknown player and an
\* unknown game with the store working.
Callers ==
    { <<"g1", PLAYER_ID, f>> : f \in Faults }
        \cup { <<"g1", "player_2", NoFault>>, <<"g2", PLAYER_ID, NoFault>> }

ItemInputs      == {n_gem, n_Gem, n_GEM, n_lever, n_potion, n_ghost}
NpcInputs       == {n_guard, n_ghost}
DirectionInputs == {n_north, n_NORTH, n_south, n_west, n_Up}
OutcomeInputs   == {n_won}

\* The player's room and the turn in the stored snapshot of a game
StoredRoom(g, p) ==
    IF state_key[g] # <<>> /\ p \in DOMAIN state_key[g][1].players
    THEN state_key[g][1].players[p].location ELSE ""
StoredTurn(g) == IF state_key[g] # <<>> THEN state_key[g][1].current_turn ELSE 0

\* The calls are made one at a time: no thread is inside a call
NoThreads == <<>>

NoPrev == [ op |-> "other", game_id |-> "", player_id |-> "", arg |-> <<>>,
            success |-> FALSE, matched |-> <<>>, room0 |-> "", turn0 |-> 0,
            save |-> "none", log |-> "none" ]

\* What is remembered of a call when the next one is made: the successful
\* takes and the end_game calls
Summary(l) ==
    IF l.op \in {"take_item", "end_game"} /\ l.success
    THEN [ op |-> l.op, game_id |-> l.game_id, player_id |-> l.player_id,
           arg |-> l.arg, success |-> l.success, matched |-> l.matched,
           room0 |-> l.room0, turn0 |-> l.turn0,
           save |-> l.io.save, log |-> l.io.log ]
    ELSE NoPrev

\* A store command of the call raised
Faulted(io) ==
    io.load = "failed" \/ io.save \in {"failed", "partial"} \/ io.log = "failed"

\* One call of operation op by caller c = <<game id, player id, fault>>.
\* The store and the clock become what the operation returns.  A call that
\* changed neither leaves the program where it was, so the calls that can
\* follow it are the calls that can follow the state before it: the run is
\* not continued from it.
Call(op, c, arg, out) ==
    /\ calls < MaxCalls
    /\ last.changed
    /\ c[3] = NoFault \/ faults < MaxFaults
    /\ state_key' = out.db.state
    /\ logs_key' = out.db.logs
    /\ hash_key' = out.db.hash
    /\ now' = out.now
    /\ calls' = IF out.db # Db \/ out.now # now THEN calls + 1 ELSE calls
    /\ faults' = IF Faulted(out.io) THEN faults + 1 ELSE faults
    /\ last' = [ op |-> op, game_id |-> c[1], player_id |-> c[2],
                 arg |-> arg, success |-> out.result.success,
                 message |-> out.result.message, io |-> out.io,
                 matched |-> out.matched, value |-> out.value,
                 room0 |-> StoredRoom(c[1], c[2]),
                 turn0 |-> StoredTurn(c[1]),
                 changed |-> (out.db # Db \/ out.now # now) ]
    /\ prev' = Summary(last)
    /\ UNCHANGED inflight

Init ==
    \E scenario_config \in Scenarios :
        LET started == start_new_game(EmptyDb, 0, scenario_config, n_hero, "g1", NoFault)
        IN  /\ state_key = started.db.state
            /\ logs_key = started.db.logs
            /\ hash_key = started.db.hash
            /\ now = started.now
            /\ calls = 0
            /\ faults = 0
            /\ updates = 0
            /\ last = [ op |-> "start_new_game", game_id |-> started.game_id,
                        player_id |-> PLAYER_ID, arg |-> <<>>, success |-> TRUE,
                        message |-> "", io |-> [load |-> "ok", save |-> "ok", log |-> "ok"],
                        matched |-> <<>>, value |-> <<>>, room0 |-> "", turn0 |-> 0,
                        changed |-> TRUE ]
            /\ prev = NoPrev
            /\ inflight = NoThreads

Move ==
    \E c \in Callers, direction \in DirectionInputs :
        /\ Call("move_player", c, direction,
                move_player(Db, now, c[1], c[2], direction, c[3]))
        /\ UNCHANGED updates

Take ==
    \E c \in Callers, item_name \in ItemInputs :
        /\ Call("take_item", c, item_name,
                take_item(Db, now, c[1], c[2], item_name, c[3]))
        /\ UNCHANGED updates

Drop ==
    \E c \in Callers, item_name \in ItemInputs :
        /\ Call("drop_item", c, item_name,
                drop_item(Db, now, c[1], c[2], item_name, c[3]))
        /\ UNCHANGED updates

Use ==
    \E c \in Callers, item_name \in ItemInputs :
        /\ Call("use_item", c, item_name,
                use_item(Db, now, c[1], c[2], item_name, c[3]))
        /\ UNCHANGED updates

Talk ==
    \E c \in Callers, npc_name \in NpcInputs :
        /\ Call("talk_to_npc", c, npc_name,
                talk_to_npc(Db, now, c[1], c[2], npc_name, c[3]))
        /\ UNCHANGED updates

LookAround ==
    \E c \in Callers :
        /\ Call("look_around", c, <<>>,
                look_around(Db, now, c[1], c[2], c[3]))
        /\ UNCHANGED updates

CheckInventory ==
    \E c \in Callers :
        /\ Call("check_inventory", c, <<>>,
                check_inventory(Db, now, c[1], c[2], c[3]))
        /\ UNCHANGED updates

AvailableActions ==
    \E c \in Callers :
        /\ Call("get_available_actions", c, <<>>,
                get_available_actions(Db, now, c[1], c[2], c[3]))
        /\ UNCHANGED updates

\* end_game takes no player id
EndGame ==
    \E c \in Callers, outcome \in OutcomeInputs :
        /\ c[2] = PLAYER_ID
        /\ Call("end_game", c, outcome,
                end_game(Db, now, c[1], outcome, c[3]))
        /\ UNCHANGED updates

Next ==
    \/ Move
    \/ Take
    \/ Drop
    \/ Use
    \/ Talk
    \/ LookAround
    \/ CheckInventory
    \/ AvailableActions
    \/ EndGame

Spec == Init /\ [][Next]_vars

\* update_entity is called by an operator's tooling, not by the engine
UpdateInputs ==
    { [type |-> "players", id |-> PLAYER_ID,  data |-> [location |-> "yard"]],
      [type |-> "players", id |-> PLAYER_ID,  data |-> [active |-> TRUE]],
      [type |-> "items",   id |-> "gem1",     data |-> [location |-> "yard"]],
      [type |-> "items",   id |-> "nothing",  data |-> [takeable |-> TRUE]] }

\* update_entity takes no player id; it is called with the store working,
\* on the game and on an unknown game
UpdateCallers == { <<"g1", PLAYER_ID, NoFault>>, <<"g2", PLAYER_ID, NoFault>> }

UpdateEntity ==
    \E c \in UpdateCallers, u \in UpdateInputs :
        /\ updates < MaxUpdates
        /\ updates' = updates + 1
        /\ Call("update_entity", c, u,
                update_entity(Db, now, c[1], u.type, u.id, u.data, c[3]))

\* The engine with the store working, and update_entity
NextAdmin ==
    \/ Move /\ faults' = faults
    \/ Take /\ faults' = faults
    \/ Drop /\ faults' = faults
    \/ Use /\ faults' = faults
    \/ Talk /\ faults' = faults
    \/ LookAround /\ faults' = faults
    \/ CheckInventory /\ faults' = faults
    \/ AvailableActions /\ faults' = faults
    \/ EndGame /\ faults' = faults
    \/ UpdateEntity

SpecAdmin == Init /\ [][NextAdmin]_vars

\* The gated rooms: the player of g1, with the store working or with the
\* SET of the save raising
GateCallers ==
    { <<"g1", PLAYER_ID, NoFault>>, <<"g1", PLAYER_ID, [NoFault EXCEPT !.save = TRUE]>> }

GateItemInputs      == {n_key, n_rune, n_pick, n_altar}
GateDirectionInputs == {n_north, n_east, n_west, n_south}
GateNpcInputs       == {n_guard, n_sage, n_ghost}

InitGate ==
    LET started == start_new_game(EmptyDb, 0, ScenarioGate, n_hero, "g1", NoFault)
    IN  /\ state_key = started.db.state
        /\ logs_key = started.db.logs
        /\ hash_key = started.db.hash
        /\ now = started.now
        /\ calls = 0
        /\ faults = 0
        /\ updates = 0
        /\ last = [ op |-> "start_new_game", game_id |-> started.game_id,
                    player_id |-> PLAYER_ID, arg |-> <<>>, success |-> TRUE,
                    message |-> "", io |-> [load |-> "ok", save |-> "ok", log |-> "ok"],
                    matched |-> <<>>, value |-> <<>>, room0 |-> "", turn0 |-> 0,
                    changed |-> TRUE ]
        /\ prev = NoPrev
        /\ inflight = NoThreads

MoveGate ==
    \E c \in GateCallers, direction \in GateDirectionInputs :
        /\ Call("move_player", c, direction,
                move_player(Db, now, c[1], c[2], direction, c[3]))
        /\ UNCHANGED updates

TakeGate ==
    \E c \in GateCallers, item_name \in GateItemInputs :
        /\ Call("take_item", c, item_name,
                take_item(Db, now, c[1], c[2], item_name, c[3]))
        /\ UNCHANGED updates

DropGate ==
    \E c \in GateCallers, item_name \in GateItemInputs :
        /\ Call("drop_item", c, item_name,
                drop_item(Db, now, c[1], c[2], item_name, c[3]))
        /\ UNCHANGED updates

UseGate ==
    \E c \in GateCallers, item_name \in GateItemInputs :
        /\ Call("use_item", c, item_name,
                use_item(Db, now, c[1], c[2], item_name, c[3]))
        /\ UNCHANGED updates

TalkGate ==
    \E c \in GateCallers, npc_name \in GateNpcInputs :
        /\ Call("talk_to_npc", c, npc_name,
                talk_to_npc(Db, now, c[1], c[2], npc_name, c[3]))
        /\ UNCHANGED updates

EndGate ==
    \E c \in GateCallers, outcome \in OutcomeInputs :
        /\ Call("end_game", c, outcome,
                end_game(Db, now, c[1], outcome, c[3]))
        /\ UNCHANGED updates

NextGate ==
    \/ MoveGate
    \/ TakeGate
    \/ DropGate
    \/ UseGate
    \/ TalkGate
    \/ EndGate

SpecGate == InitGate /\ [][NextGate]_vars

\* The event log alone: add_log_entry and get_game_history on game g1.
\* Entry number n is the entry appended after n entries were accepted; calls
\* counts the accepted entries and updates the add_log_entry calls made.
LogEntryNumber(n, clk) ==
    [ timestamp |-> clk, turn |-> n, action |-> "move", player_id |-> PLAYER_ID,
      message |-> [fmt |-> "Moved {direction} to {target_room.name}",
                   args |-> <<n_north, n_yard>>] ]

\* The store after the first n <= LOG_KEEP entries were appended to the
\* empty log: every lpush put its entry at the head, no ltrim cut anything
Appended(n) ==
    [EmptyDb EXCEPT !.logs["g1"] = [i \in 1..n |-> LogEntryNumber(n - i, n - i)]]

\* How many entries the log holds at the start, and the limits asked for
InitialLengths == {0, 2, LOG_KEEP - 1, LOG_KEEP}
LimitInputs    == {-1, 0, 1, 2, 3, HISTORY_LIMIT, LOG_KEEP, LOG_KEEP + 1}

InitLog ==
    \E n \in InitialLengths :
        /\ state_key = Appended(n).state
        /\ logs_key = Appended(n).logs
        /\ hash_key = Appended(n).hash
        /\ now = n
        /\ calls = n
        /\ faults = 0
        /\ updates = 0
        /\ last = [ op |-> "start_new_game", game_id |-> "g1",
                    player_id |-> PLAYER_ID, arg |-> <<>>, success |-> TRUE,
                    message |-> "", io |-> IoNone,
                    matched |-> <<>>, value |-> <<>>, room0 |-> "", turn0 |-> 0,
                    changed |-> TRUE ]
        /\ prev = NoPrev
        /\ inflight = NoThreads

AppendLog ==
    \E f \in {NoFault, [NoFault EXCEPT !.log = TRUE]} :
        LET entry == LogEntryNumber(calls, now)
            added == add_log_entry(Db, "g1", entry, f)
        IN  /\ updates < MaxAppends
            /\ updates' = updates + 1
            /\ state_key' = added.db.state
            /\ logs_key' = added.db.logs
            /\ hash_key' = added.db.hash
            /\ now' = now + 1
            /\ calls' = IF added.ok THEN calls + 1 ELSE calls
            /\ faults' = IF added.ok THEN faults ELSE faults + 1
            /\ last' = [ op |-> "add_log_entry", game_id |-> "g1",
                         player_id |-> PLAYER_ID, arg |-> <<entry>>,
                         success |-> added.ok, message |-> "",
                         io |-> [IoNone EXCEPT !.log = IF added.ok THEN "ok" ELSE "failed"],
                         matched |-> <<>>, value |-> <<>>, room0 |-> "", turn0 |-> 0,
                         changed |-> added.ok ]
            /\ prev' = NoPrev
            /\ UNCHANGED inflight

GetLog ==
    \E limit \in LimitInputs, f \in {NoFault, [NoFault EXCEPT !.load = TRUE]} :
        /\ last.op # "get_game_history"
        /\ last' = [ op |-> "get_game_history", game_id |-> "g1",
                     player_id |-> PLAYER_ID, arg |-> limit,
                     success |-> TRUE, message |-> "",
                     io |-> [IoNone EXCEPT !.load = IF f.load THEN "failed" ELSE "ok"],
                     matched |-> <<>>, value |-> <<game_history(Db, "g1", limit, f)>>,
                     room0 |-> "", turn0 |-> 0, changed |-> FALSE ]
        /\ prev' = NoPrev
        /\ UNCHANGED inflight
        /\ UNCHANGED <<state_key, logs_key, hash_key, now, calls, faults, updates>>

NextLog ==
    \/ AppendLog
    \/ GetLog

SpecLog == InitLog /\ [][NextLog]_vars

\* The store alone, under game ids of any text: "a", "a:b", "ab" and "a[b]".
\* Snapshots are saved under a chosen id as the server does when it moves a
\* new game to its fixed id; calls counts the calls made.
id_a   == <<97>>
id_a_b == <<97, 58, 98>>
id_ab  == <<97, 98>>
id_abr == <<97, 91, 98, 93>>

StoreIds == {id_a, id_a_b, id_ab, id_abr}

EmptyStore == [ state |-> [g \in StoreIds |-> <<>>],
                logs  |-> [g \in StoreIds |-> <<>>],
                hash  |-> [g \in StoreIds |-> NoHashes] ]

\* The snapshot of a new game, with game_id set to the id it is saved under
StoreSnapshot(g) ==
    start_new_game(EmptyStore, 0, ScenarioGate, n_hero, g, NoFault).db.state[g][1]

\* One call on the store alone: out is [db, ok]
StoreCall(op, g, f, out) ==
    /\ calls < MaxStoreCalls
    /\ calls' = calls + 1
    /\ state_key' = out.db.state
    /\ logs_key' = out.db.logs
    /\ hash_key' = out.db.hash
    /\ now' = now + 1
    /\ faults' = IF f = NoFault THEN faults ELSE faults + 1
    /\ last' = [ op |-> op, game_id |-> g, player_id |-> PLAYER_ID, arg |-> <<>>,
                 success |-> out.ok, message |-> "",
                 io |-> [IoNone EXCEPT !.load = IF f.load THEN "failed" ELSE "ok",
                                       !.save = IF f.save THEN "failed" ELSE "none"],
                 matched |-> <<>>, value |-> <<>>, room0 |-> "", turn0 |-> 0,
                 changed |-> out.db # Db ]
    /\ prev' = NoPrev
    /\ UNCHANGED inflight
    /\ UNCHANGED updates

InitStore ==
    /\ state_key = EmptyStore.state
    /\ logs_key = EmptyStore.logs
    /\ hash_key = EmptyStore.hash
    /\ now = 0
    /\ calls = 0
    /\ faults = 0
    /\ updates = 0
    /\ last = [ op |-> "other", game_id |-> <<>>, player_id |-> PLAYER_ID,
                arg |-> <<>>, success |-> TRUE, message |-> "", io |-> IoNone,
                matched |-> <<>>, value |-> <<>>, room0 |-> "", turn0 |-> 0,
                changed |-> FALSE ]
    /\ prev = NoPrev
    /\ inflight = NoThreads

SaveGame ==
    \E g \in StoreIds :
        StoreCall("save_game_state", g, NoFault,
                  save_game_state(Db, g, StoreSnapshot(g), NoFault))

AppendEntry ==
    \E g \in StoreIds :
        StoreCall("add_log_entry", g, NoFault,
                  add_log_entry(Db, g, LogEntryNumber(calls, now), NoFault))

DeleteGame ==
    \E g \in StoreIds,
       f \in {NoFault, [NoFault EXCEPT !.load = TRUE], [NoFault EXCEPT !.save = TRUE]} :
        /\ f = NoFault \/ faults < MaxFaults
        /\ StoreCall("delete_game", g, f, delete_game(Db, g, f))

NextStore ==
    \/ SaveGame
    \/ AppendEntry
    \/ DeleteGame

SpecStore == InitStore /\ [][NextStore]_vars

\* Starting games: start_new_game on the three scenarios under every fault.
\* The generated uuid is an id under which nothing is stored.
StartScenarios == {ScenarioGems, ScenarioVault, ScenarioGate}

\* One start_new_game call; started is what it returns
StartCall(uuid, scenario_config, f, started) ==
    /\ calls < MaxStarts
    /\ calls' = calls + 1
    /\ state_key' = started.db.state
    /\ logs_key' = started.db.logs
    /\ hash_key' = started.db.hash
    /\ now' = started.now
    /\ faults' = IF f = NoFault THEN faults ELSE faults + 1
    /\ last' = [ op |-> "start_new_game", game_id |-> started.game_id,
                 player_id |-> PLAYER_ID, arg |-> <<scenario_config>>,
                 success |-> started.game_id # "", message |-> "",
                 io |-> [ load |-> "ok",
                          save |-> IF f.save THEN "failed"
                                   ELSE IF f.aux THEN "partial" ELSE "ok",
                          log |-> IF started.db.logs[uuid] # <<>> THEN "ok" ELSE "failed" ],
                 matched |-> <<>>, value |-> <<>>, room0 |-> "", turn0 |-> 0,
                 changed |-> started.db # Db ]
    /\ prev' = NoPrev
    /\ UNCHANGED <<updates, inflight>>

InitStart ==
    /\ state_key = EmptyDb.state
    /\ logs_key = EmptyDb.logs
    /\ hash_key = EmptyDb.hash
    /\ now = 0
    /\ calls = 0
    /\ faults = 0
    /\ updates = 0
    /\ last = [ op |-> "other", game_id |-> "", player_id |-> PLAYER_ID,
                arg |-> <<>>, success |-> TRUE, message |-> "", io |-> IoNone,
                matched |-> <<>>, value |-> <<>>, room0 |-> "", turn0 |-> 0,
                changed |-> FALSE ]
    /\ prev = NoPrev
    /\ inflight = NoThreads

StartNewGame ==
    \E uuid \in GameIds, scenario_config \in StartScenarios, f \in Faults :
        /\ state_key[uuid] = <<>> /\ logs_key[uuid] = <<>>
        /\ StartCall(uuid, scenario_config, f,
                     start_new_game(Db, now, scenario_config, n_hero, uuid, f))

NextStart == StartNewGame

SpecStart == InitStart /\ [][NextStart]_vars

\* The MCP server over the engine, with the store working.  The server
\* plays one game, stored under its fixed id "game_1"; a game that the engine
\* starts is stored under a generated uuid first ("3f", "7c" stand for two
\* of them) and then moved to the fixed id.
current_game_id == <<103, 97, 109, 101, 95, 49>>
uuid_3f == <<51, 102>>
uuid_7c == <<55, 99>>

Uuids == {uuid_3f, uuid_7c}
ServerIds == {current_game_id} \cup Uuids

EmptyServerStore == [ state |-> [g \in ServerIds |-> <<>>],
                      logs  |-> [g \in ServerIds |-> <<>>],
                      hash  |-> [g \in ServerIds |-> NoHashes] ]

\* "Update to use server-specific game ID": the snapshot of the new game is
\* saved under the fixed id with game_id set to it, and the new game is
\* deleted.  Returns the store.
MoveToServerId(db, new_game_id) ==
    LET loaded == load_game_state(db, new_game_id, NoFault)
    IN  IF loaded = <<>> THEN db
        ELSE LET state == [loaded[1] EXCEPT !.game_id = current_game_id]
                 sv == save_game_state(db, current_game_id, state, NoFault)
             IN  delete_game(sv.db, new_game_id, NoFault).db

\* The start_new_game tool of the server; value is the generated uuid
server_start_new_game(db, clk, scenario_config, player_name, uuid) ==
    LET cleared == IF game_exists(db, current_game_id)
                   THEN delete_game(db, current_game_id, NoFault).db
                   ELSE db
        started == start_new_game(cleared, clk, scenario_config, player_name, uuid, NoFault)
    IN  [ db |-> MoveToServerId(started.db, started.game_id), now |-> started.now,
          result |-> [success |-> TRUE, message |-> "New game started on {server_name}!"],
          io |-> [load |-> "ok", save |-> "ok", log |-> "ok"],
          matched |-> <<>>, value |-> <<uuid>> ]

\* initialize_game_engine: a game is created when none is stored under the
\* fixed id; value is the generated uuid, if one was
initialize_game_engine(db, clk, scenario_config, uuid) ==
    IF ~game_exists(db, current_game_id)
    THEN LET started == start_new_game(db, clk, scenario_config, n_hero, uuid, NoFault)
         IN  [ db |-> MoveToServerId(started.db, started.game_id), now |-> started.now,
               result |-> [success |-> TRUE, message |-> "Creating new game"],
               io |-> [load |-> "ok", save |-> "ok", log |-> "ok"],
               matched |-> <<>>, value |-> <<uuid>> ]
    ELSE [ db |-> db, now |-> clk + 1,
           result |-> [success |-> TRUE, message |-> "Loading existing game"],
           io |-> IoNone, matched |-> <<>>, value |-> <<>> ]

ServerCaller == <<current_game_id, PLAYER_ID, NoFault>>

\* The server process before initialize_game_engine has run: no engine yet
InitServer ==
    /\ state_key = EmptyServerStore.state
    /\ logs_key = EmptyServerStore.logs
    /\ hash_key = EmptyServerStore.hash
    /\ now = 0
    /\ calls = 0
    /\ faults = 0
    /\ updates = 0
    /\ last = [ op |-> "other", game_id |-> <<>>, player_id |-> PLAYER_ID,
                arg |-> <<>>, success |-> TRUE, message |-> "", io |-> IoNone,
                matched |-> <<>>, value |-> <<>>, room0 |-> "", turn0 |-> 0,
                changed |-> TRUE ]
    /\ prev = NoPrev
    /\ inflight = NoThreads

\* self.game_engine is set: initialize_game_engine has run
EngineReady == last.op # "other"

\* The server process starts, or starts again over the same store
InitializeGameEngine ==
    \E scenario_config \in StartScenarios, uuid \in Uuids :
        /\ Call("initialize_game_engine", ServerCaller, <<scenario_config>>,
                initialize_game_engine(Db, now, scenario_config, uuid))
        /\ UNCHANGED updates

ServerStartNewGame ==
    \E scenario_config \in StartScenarios, uuid \in Uuids :
        /\ EngineReady
        /\ Call("server_start_new_game", ServerCaller, <<scenario_config>>,
                server_start_new_game(Db, now, scenario_config, n_hero, uuid))
        /\ UNCHANGED updates

ServerMove ==
    \E direction \in DirectionInputs :
        /\ EngineReady
        /\ Call("move_player", ServerCaller, direction,
                move_player(Db, now, current_game_id, PLAYER_ID, direction, NoFault))
        /\ UNCHANGED updates

ServerTake ==
    \E item_name \in ItemInputs :
        /\ EngineReady
        /\ Call("take_item", ServerCaller, item_name,
                take_item(Db, now, current_game_id, PLAYER_ID, item_name, NoFault))
        /\ UNCHANGED updates

ServerEndGame ==
    \E outcome \in OutcomeInputs :
        /\ EngineReady
        /\ Call("end_game", ServerCaller, outcome,
                end_game(Db, now, current_game_id, outcome, NoFault))
        /\ UNCHANGED updates

NextServer ==
    \/ InitializeGameEngine
    \/ ServerStartNewGame
    \/ ServerMove
    \/ ServerTake
    \/ ServerEndGame

SpecServer == InitServer /\ [][NextServer]_vars

\* Two threads calling the engine at once.  The engine holds no lock, so the
\* store commands of two calls interleave: a call loads the snapshot and
\* computes the new one, then saves it, then _log_action loads the snapshot
\* again and appends the entry.  calls counts the calls begun.
Threads == {"t1", "t2"}

Idle == [ pc |-> "idle", op |-> "", game_id |-> "", player_id |-> "", arg |-> <<>>,
          loaded |-> <<>>, snapshot |-> <<>>, over |-> <<>>, action |-> "",
          message |-> <<>>, success |-> FALSE, raced |-> FALSE ]

\* The five player actions by name
Engine(op, db, clk, game_id, player_id, arg, f) ==
    CASE op = "move_player" -> move_player(db, clk, game_id, player_id, arg, f)
      [] op = "take_item"   -> take_item(db, clk, game_id, player_id, arg, f)
      [] op = "drop_item"   -> drop_item(db, clk, game_id, player_id, arg, f)
      [] op = "use_item"    -> use_item(db, clk, game_id, player_id, arg, f)
      [] op = "talk_to_npc" -> talk_to_npc(db, clk, game_id, player_id, arg, f)

\* The load and the computation of the new snapshot, up to the save; out is
\* what the whole call would return: a rejected call returns here
CallStep(db, clk, th, out) ==
    IF out.result.success
    THEN [ db |-> db, now |-> clk + 1,
           th |-> [th EXCEPT !.pc = "save",
                             !.loaded = db.state[th.game_id],
                             !.snapshot = out.db.state[th.game_id],
                             !.action = out.db.logs[th.game_id][1].action,
                             !.message = out.db.logs[th.game_id][1].message] ]
    ELSE [ db |-> db, now |-> clk,
           th |-> [th EXCEPT !.pc = "done", !.loaded = db.state[th.game_id]] ]

\* (mutant) a save that writes only over the snapshot its call loaded
SaveStep_guarded(db, clk, th, sv) ==
    [ db |-> IF db.state[th.game_id] = th.loaded THEN sv.db ELSE db, now |-> clk,
      th |-> [th EXCEPT !.pc = "log", !.over = db.state[th.game_id]] ]

\* save_game_state of the computed snapshot; sv is what it returns
SaveStep(db, clk, th, sv) ==
    [ db |-> sv.db, now |-> clk,
      th |-> [th EXCEPT !.pc = "log", !.over = db.state[th.game_id]] ]

\* _log_action, after which the call returns; lg is what it returns
LogStep(th, lg) ==
    [ db |-> lg.db, now |-> lg.now,
      th |-> [th EXCEPT !.pc = "done", !.success = TRUE] ]

\* One step of a thread th on the store db at clock clk: [db, now, th]
StepOf(db, clk, th) ==
    IF th.pc = "call"
    THEN CallStep(db, clk, th,
                  Engine(th.op, db, clk, th.game_id, th.player_id, th.arg, NoFault))
    ELSE IF th.pc = "save"
    THEN SaveStep(db, clk, th,
                  save_game_state(db, th.game_id, th.snapshot[1], NoFault))
    ELSE LogStep(th, _log_action(db, clk, th.game_id, th.player_id,
                                 th.action, th.message, NoFault))

RaceInputs ==
    { [op |-> "move_player", arg |-> n_north],
      [op |-> "take_item",   arg |-> n_gem],
      [op |-> "take_item",   arg |-> n_lever],
      [op |-> "use_item",    arg |-> n_lever],
      [op |-> "talk_to_npc", arg |-> n_guard] }

\* Thread t takes the step that turns its record th into the next one; out
\* is that step
RaceStep(t, th, begun, out) ==
    /\ state_key' = out.db.state
    /\ logs_key' = out.db.logs
    /\ hash_key' = out.db.hash
    /\ now' = out.now
    /\ calls' = calls + begun
    /\ inflight' = [inflight EXCEPT ![t] = out.th]
    /\ last' = [ op |-> th.op, game_id |-> th.game_id, player_id |-> th.player_id,
                 arg |-> th.arg, success |-> out.th.success, message |-> "",
                 io |-> IoNone, matched |-> <<>>, value |-> <<t, th.pc>>,
                 room0 |-> StoredRoom(th.game_id, th.player_id),
                 turn0 |-> StoredTurn(th.game_id),
                 changed |-> (out.db # Db \/ out.now # now) ]
    /\ prev' = NoPrev
    /\ UNCHANGED <<faults, updates>>

\* The record of a thread that is about to make call c on game g
Calling(t, c, g) ==
    [Idle EXCEPT !.pc = "call", !.op = c.op, !.arg = c.arg,
                 !.game_id = g, !.player_id = PLAYER_ID,
                 !.raced = \E u \in Threads \ {t} :
                              /\ inflight[u].pc = "save"
                              /\ inflight[u].game_id = g]

\* The vault game is g1 and the gems game, started after it, is g2: each
\* start_new_game writes the keys of its own game id
InitRace ==
    LET first  == start_new_game(EmptyDb, 0, ScenarioVault, n_hero, "g1", NoFault)
        second == start_new_game(EmptyDb, first.now, ScenarioGems, n_hero, "g2", NoFault)
        Both(a, b) == [g \in GameIds |-> IF g = "g1" THEN a[g] ELSE b[g]]
    IN  /\ state_key = Both(first.db.state, second.db.state)
        /\ logs_key = Both(first.db.logs, second.db.logs)
        /\ hash_key = Both(first.db.hash, second.db.hash)
        /\ now = second.now
        /\ calls = 0
        /\ faults = 0
        /\ updates = 0
        /\ last = [ op |-> "start_new_game", game_id |-> "g2",
                    player_id |-> PLAYER_ID, arg |-> <<>>, success |-> TRUE,
                    message |-> "", io |-> [load |-> "ok", save |-> "ok", log |-> "ok"],
                    matched |-> <<>>, value |-> <<>>, room0 |-> "", turn0 |-> 0,
                    changed |-> TRUE ]
        /\ prev = NoPrev
        /\ inflight = [t \in Threads |-> Idle]

\* A thread begins a call: it loads the snapshot and computes the new one
BeginCall ==
    \E t \in Threads, c \in RaceInputs, g \in GameIds :
        /\ inflight[t].pc \in {"idle", "done"}
        /\ calls < MaxRaceCalls
        /\ RaceStep(t, Calling(t, c, g), 1, StepOf(Db, now, Calling(t, c, g)))

SaveCall ==
    \E t \in Threads :
        /\ inflight[t].pc = "save"
        /\ RaceStep(t, inflight[t], 0, StepOf(Db, now, inflight[t]))

LogCall ==
    \E t \in Threads :
        /\ inflight[t].pc = "log"
        /\ RaceStep(t, inflight[t], 0, StepOf(Db, now, inflight[t]))

NextRace ==
    \/ BeginCall
    \/ SaveCall
    \/ LogCall

SpecRace == InitRace /\ [][NextRace]_vars

(* A long game: the gems game in which the player takes the gem, walks    *)
(* back and forth between hall and yard and uses the gem now and then,     *)
(* and the game is ended at some point.  calls counts the calls that       *)
(* changed the store.                                                      *)

\* The longest play
MaxPlayed == 108

\* The turns that the player spends on using the gem
UseTurns == {2, 3, 55, 104}

LongCaller == <<"g1", PLAYER_ID, NoFault>>

InitLong ==
    LET started == start_new_game(EmptyDb, 0, ScenarioGems, n_hero, "g1", NoFault)
    IN  /\ state_key = started.db.state
        /\ logs_key = started.db.logs
        /\ hash_key = started.db.hash
        /\ now = started.now
        /\ calls = 0
        /\ faults = 0
        /\ updates = 0
        /\ last = [ op |-> "start_new_game", game_id |-> "g1",
                    player_id |-> PLAYER_ID, arg |-> <<>>, success |-> TRUE,
                    message |-> "", io |-> [load |-> "ok", save |-> "ok", log |-> "ok"],
                    matched |-> <<>>, value |-> <<>>, room0 |-> "", turn0 |-> 0,
                    changed |-> TRUE ]
        /\ prev = NoPrev
        /\ inflight = NoThreads

\* One call of the long game
LongCall(op, arg, out) ==
    /\ calls < MaxPlayed
    /\ last.changed
    /\ state_key' = out.db.state
    /\ logs_key' = out.db.logs
    /\ hash_key' = out.db.hash
    /\ now' = out.now
    /\ calls' = IF out.db # Db \/ out.now # now THEN calls + 1 ELSE calls
    /\ last' = [ op |-> op, game_id |-> "g1", player_id |-> PLAYER_ID,
                 arg |-> arg, success |-> out.result.success,
                 message |-> out.result.message, io |-> out.io,
                 matched |-> out.matched, value |-> out.value,
                 room0 |-> StoredRoom("g1", PLAYER_ID),
                 turn0 |-> StoredTurn("g1"),
                 changed |-> (out.db # Db \/ out.now # now) ]
    /\ prev' = Summary(last)
    /\ UNCHANGED <<faults, updates, inflight>>

TakeLong ==
    /\ StoredTurn("g1") = 0
    /\ LongCall("take_item", n_gem,
                take_item(Db, now, "g1", PLAYER_ID, n_gem, NoFault))

MoveLong ==
    \E direction \in {n_north, n_south} :
        /\ StoredTurn("g1") > 0
        /\ StoredTurn("g1") + 1 \notin UseTurns
        /\ LongCall("move_player", direction,
                    move_player(Db, now, "g1", PLAYER_ID, direction, NoFault))

UseLong ==
    /\ StoredTurn("g1") + 1 \in UseTurns
    /\ LongCall("use_item", n_gem,
                use_item(Db, now, "g1", PLAYER_ID, n_gem, NoFault))

EndLong ==
    \E outcome \in OutcomeInputs :
        /\ last.op # "end_game"
        /\ LongCall("end_game", outcome,
                    end_game(Db, now, "g1", outcome, NoFault))

NextLong ==
    \/ TakeLong
    \/ MoveLong
    \/ UseLong
    \/ EndLong

SpecLong == InitLong /\ [][NextLong]_vars

-----------------------------------------------------------------------------
(* Properties.  In an action formula the unprimed variables are the state  *)
(* before a call and the primed ones the state after it: last' is the call *)
(* of the step and last the call before it.                                *)

\* The five player actions, and the operations that write a snapshot
ActionOps == {"move_player", "take_item", "drop_item", "use_item", "talk_to_npc"}
WritingOps == ActionOps \cup {"end_game"}

\* The stored snapshot of the game the runs are about
Stored == state_key["g1"][1]
StoredPlayer == Stored.players[PLAYER_ID]

\* The call of the step is made on game g1 for its player
OnGame == last'.game_id = "g1" /\ last'.player_id = PLAYER_ID

\* The call of the step finds an active game whose player stands in a room
InPlay ==
    /\ OnGame
    /\ last'.io.load = "ok"
    /\ Stored.active
    /\ StoredPlayer.location \in DOMAIN Stored.rooms

\* C1: every writing operation persists the updated snapshot and its log
\* entry together or persists neither, whatever the store does.
C1_AllOrNothing ==
    [][ (last'.op \in WritingOps /\ last'.game_id = "g1") =>
            \/ /\ state_key' = state_key
               /\ logs_key' = logs_key
            \/ /\ state_key'["g1"] # state_key["g1"]
               /\ Len(logs_key'["g1"]) = Len(logs_key["g1"]) + 1 ]_vars

\* C2: when the snapshot save of a player action fails, the action does not
\* return success, the stored turn is not advanced and no log entry is added.
C2_FailedSaveIsReported ==
    [][ (last'.op \in ActionOps /\ last'.game_id = "g1" /\ last'.io.save = "failed") =>
            /\ ~last'.success
            /\ state_key'["g1"][1].current_turn = Stored.current_turn
            /\ logs_key' = logs_key ]_vars

\* Where an item id occurs: the <<room, index>> pairs and the inventory indexes
RoomPlaces(s, id) ==
    UNION { { <<r, i>> : i \in { j \in DOMAIN s.rooms[r].items :
                                   s.rooms[r].items[j] = id } } :
            r \in DOMAIN s.rooms }
InventoryPlaces(s, id) ==
    { i \in DOMAIN s.players[PLAYER_ID].inventory :
        s.players[PLAYER_ID].inventory[i] = id }

\* C3: every item of the item table is in exactly one container, once: a
\* room's items list or the inventory, and its location names that
\* container; every id in a room's list or in the inventory is in the table.
C3_ItemContainment ==
    /\ \A id \in DOMAIN Stored.items :
          /\ Cardinality(RoomPlaces(Stored, id))
                + Cardinality(InventoryPlaces(Stored, id)) = 1
          /\ InventoryPlaces(Stored, id) # {} =>
                Stored.items[id].location = PLAYER_ID
          /\ \A place \in RoomPlaces(Stored, id) :
                Stored.items[id].location = place[1]
    /\ \A r \in DOMAIN Stored.rooms : \A i \in DOMAIN Stored.rooms[r].items :
          Stored.rooms[r].items[i] \in DOMAIN Stored.items
    /\ \A i \in DOMAIN StoredPlayer.inventory :
          StoredPlayer.inventory[i] \in DOMAIN Stored.items

\* An item was carried to another room and dropped there, while another
\* item is held
C3_Witness ==
    /\ last.op = "drop_item" /\ last.success /\ last.io.save = "ok"
    /\ \E id \in DOMAIN Stored.items :
          /\ Stored.items[id].location = "yard"
          /\ RoomPlaces(Stored, id) = {<<"yard", 1>>}

\* C4: the stored turn never decreases, grows by exactly one on each player
\* action that returns success and is unchanged by a call that returns
\* failure.
C4_TurnCounts ==
    [][ last'.game_id = "g1" =>
            /\ state_key'["g1"][1].current_turn >= Stored.current_turn
            /\ (last'.op \in ActionOps /\ last'.success) =>
                  state_key'["g1"][1].current_turn = Stored.current_turn + 1
            /\ ~last'.success =>
                  state_key'["g1"][1].current_turn = Stored.current_turn ]_vars

\* C5: on an ended game every player action returns failure and leaves the
\* snapshot, the hashes and the log as they were; end_game is still accepted.
C5_InactiveRejects ==
    [][ (~Stored.active /\ last'.game_id = "g1") =>
            /\ last'.op \in ActionOps =>
                  /\ ~last'.success
                  /\ state_key' = state_key
                  /\ logs_key' = logs_key
                  /\ hash_key' = hash_key
            /\ (last'.op = "end_game" /\ last'.io.load = "ok") => last'.success ]_vars

\* A take of a gem that lies in the player's room is refused on the ended game
C5_Witness ==
    /\ ~Stored.active
    /\ last.op = "take_item" /\ last.arg = n_gem /\ last.player_id = PLAYER_ID
    /\ last.game_id = "g1" /\ last.io.load = "ok"
    /\ ~last.success /\ last.message = "Game not found or inactive"
    /\ \E i \in DOMAIN Stored.rooms[StoredPlayer.location].items :
          Stored.rooms[StoredPlayer.location].items[i] = "gem1"

\* C6: once a stored snapshot has active = false, it has active = false after
\* every engine operation and every update_entity call.
C6_EndedIsTerminal ==
    [][ \A g \in GameIds :
            (state_key[g] # <<>> /\ ~state_key[g][1].active) =>
                (state_key'[g] # <<>> /\ ~state_key'[g][1].active) ]_vars

\* update_entity has rewritten the snapshot of the ended game
C6_Witness ==
    /\ ~Stored.active
    /\ last.op = "update_entity" /\ last.game_id = "g1" /\ last.io.save = "ok"
    /\ Stored.last_action_at > Stored.created_at + 1

\* C7: two end_game calls in a row on an existing game, both served by the
\* store, both return the summary and leave active = false, and the second
\* changes nothing of the snapshot but last_action_at.
C7_EndGameIdempotent ==
    [][ ( /\ last.op = "end_game" /\ last.game_id = "g1"
          /\ last'.op = "end_game" /\ last'.game_id = "g1"
          /\ ~Faulted(last.io) /\ ~Faulted(last'.io) ) =>
            /\ last.success /\ last.message = "summary"
            /\ last'.success /\ last'.message = "summary"
            /\ ~Stored.active
            /\ ~state_key'["g1"][1].active
            /\ [state_key'["g1"][1] EXCEPT !.last_action_at = Stored.last_action_at]
                  = Stored ]_vars

\* The game was ended twice in a row
C7_Witness ==
    /\ prev.op = "end_game" /\ prev.game_id = "g1" /\ prev.success
    /\ prev.save = "ok" /\ prev.log = "ok"
    /\ last.op = "end_game" /\ last.game_id = "g1" /\ last.success
    /\ ~Faulted(last.io)
    /\ ~Stored.active

\* The keys of a room's connections
ConnectionKeys(room) == { room.connections[i].k : i \in DOMAIN room.connections }

\* The conclusion of C8: the move is refused, turn and location stay
MoveRefused ==
    /\ ~last'.success
    /\ state_key'["g1"][1].current_turn = Stored.current_turn
    /\ state_key'["g1"][1].players[PLAYER_ID].location = StoredPlayer.location

\* C8 as stated: a move in a direction that is not a key of the room's
\* connections is refused with 'cannot go', turn and location unchanged.
C8_AsStated ==
    [][ ( /\ last'.op = "move_player" /\ InPlay
          /\ last'.arg \notin ConnectionKeys(Stored.rooms[StoredPlayer.location]) ) =>
            /\ MoveRefused
            /\ last'.message = "You cannot go {direction} from here." ]_vars

\* C8: a move in a direction whose lower-cased form is not a key of the
\* room's connections is refused, turn and location unchanged, and on an
\* active game that loads the refusal is 'cannot go'.
C8_UnknownDirection ==
    [][ ( /\ last'.op = "move_player" /\ OnGame
          /\ StoredPlayer.location \in DOMAIN Stored.rooms
          /\ Lower(last'.arg) \notin ConnectionKeys(Stored.rooms[StoredPlayer.location]) ) =>
            /\ MoveRefused
            /\ InPlay => last'.message = "You cannot go {direction} from here." ]_vars

\* "Up" is a key of the hall's connections, and the move "Up" is refused
C8_Witness ==
    /\ last.op = "move_player" /\ last.game_id = "g1" /\ last.player_id = PLAYER_ID
    /\ last.arg = n_Up /\ last.room0 = "hall"
    /\ ~last.success /\ last.message = "You cannot go {direction} from here."
    /\ StoredPlayer.location = "hall"

\* The items list of the room the player stands in
HereItems == Stored.rooms[StoredPlayer.location].items

\* The conclusion of C9 for item id: the take is refused, the item stays in
\* the room's list, inventory and turn stay
TakeRefused(id) ==
    /\ ~last'.success
    /\ \E i \in DOMAIN state_key'["g1"][1].rooms[StoredPlayer.location].items :
          state_key'["g1"][1].rooms[StoredPlayer.location].items[i] = id
    /\ state_key'["g1"][1].players[PLAYER_ID].inventory = StoredPlayer.inventory
    /\ state_key'["g1"][1].current_turn = Stored.current_turn

\* C9 as stated: taking, by its name, an item of the room that is not
\* takeable fails; the item stays, inventory and turn are unchanged.
C9_AsStated ==
    [][ (last'.op = "take_item" /\ InPlay) =>
            \A i \in DOMAIN HereItems :
                ( /\ HereItems[i] \in DOMAIN Stored.items
                  /\ ~Stored.items[HereItems[i]].takeable
                  /\ Stored.items[HereItems[i]].name = last'.arg ) =>
                    TakeRefused(HereItems[i]) ]_vars

\* C9: taking, by a name that matches it without regard to case, an item of
\* the room that is not takeable and has no item of a matching name before
\* it in the room's list fails; the item stays, inventory and turn are
\* unchanged.
C9_NotTakeable ==
    [][ ( /\ last'.op = "take_item" /\ OnGame
          /\ StoredPlayer.location \in DOMAIN Stored.rooms ) =>
            \A i \in DOMAIN HereItems :
                ( /\ HereItems[i] \in DOMAIN Stored.items
                  /\ ~Stored.items[HereItems[i]].takeable
                  /\ Lower(Stored.items[HereItems[i]].name) = Lower(last'.arg)
                  /\ \A j \in 1..(i - 1) :
                        HereItems[j] \in DOMAIN Stored.items =>
                            Lower(Stored.items[HereItems[j]].name) # Lower(last'.arg) ) =>
                    TakeRefused(HereItems[i]) ]_vars

\* The take of the fixed gem is refused with 'cannot take'
C9_Witness ==
    /\ last.op = "take_item" /\ last.game_id = "g1" /\ last.player_id = PLAYER_ID
    /\ last.matched = <<"gem3">>
    /\ ~last.success /\ last.message = "You cannot take the {item_name}."
    /\ Stored.items["gem3"].location = "hall"

\* A take and then a drop of the same name, both served by the store, on the
\* active game
TakeThenDrop ==
    /\ last.op = "take_item" /\ last.game_id = "g1" /\ last.player_id = PLAYER_ID
    /\ last'.op = "drop_item" /\ OnGame
    /\ last'.arg = last.arg
    /\ ~Faulted(last.io) /\ ~Faulted(last'.io)
    /\ Stored.active

\* The conclusion of C10 for item id: after the drop it is in the list of
\* the room it was taken from, located there, not held, two turns later
Restored(id) ==
    /\ \E i \in DOMAIN state_key'["g1"][1].rooms[last.room0].items :
          state_key'["g1"][1].rooms[last.room0].items[i] = id
    /\ state_key'["g1"][1].items[id].location = last.room0
    /\ \A i \in DOMAIN state_key'["g1"][1].players[PLAYER_ID].inventory :
          state_key'["g1"][1].players[PLAYER_ID].inventory[i] # id
    /\ state_key'["g1"][1].current_turn = last.turn0 + 2

\* C10 as stated: for every takeable item of the player's room, a take by
\* its name followed by a drop by its name leaves it in the room's list,
\* located there, not held, with the turn advanced by two.
C10_AsStated ==
    [][ TakeThenDrop =>
            \A id \in DOMAIN Stored.items :
                ( /\ Stored.items[id].takeable
                  /\ Stored.items[id].name = last.arg
                  /\ \/ last.success /\ last.matched = <<id>>
                     \/ \E i \in DOMAIN Stored.rooms[last.room0].items :
                           Stored.rooms[last.room0].items[i] = id ) =>
                    Restored(id) ]_vars

\* C10: when the take succeeded on an item and the inventory holds no other
\* item of a matching name, the drop of the same name succeeds and leaves
\* that item in the room's list, located there, not held, with the turn
\* advanced by two.
C10_TakeDropInverse ==
    [][ ( /\ TakeThenDrop
          /\ last.success
          /\ \A i \in DOMAIN StoredPlayer.inventory :
                ( /\ StoredPlayer.inventory[i] \in DOMAIN Stored.items
                  /\ Lower(Stored.items[StoredPlayer.inventory[i]].name) = Lower(last.arg) ) =>
                    <<StoredPlayer.inventory[i]>> = last.matched ) =>
            /\ last'.success
            /\ Restored(last.matched[1]) ]_vars

\* A gem was taken and dropped again by the same name
C10_Witness ==
    /\ prev.op = "take_item" /\ prev.game_id = "g1" /\ prev.player_id = PLAYER_ID
    /\ prev.success /\ prev.save = "ok" /\ prev.log = "ok"
    /\ last.op = "drop_item" /\ last.game_id = "g1" /\ last.player_id = PLAYER_ID
    /\ last.success /\ ~Faulted(last.io)
    /\ last.arg = prev.arg /\ last.matched = prev.matched
    /\ Stored.items[last.matched[1]].location = prev.room0

\* The effect entry "consume" of the item says consumed = true
Consuming(item) ==
    \E i \in DOMAIN item.use_effects :
        /\ item.use_effects[i].k = "consume"
        /\ Truthy(LET g == DictGet(item.use_effects[i].v, "consumed")
                  IN  IF g = <<>> THEN PyFalse ELSE g[1])

\* What C11 says of one call: a successful use of a consuming item leaves
\* its id out of the inventory and of the item table; the potion, once out
\* of the table, stays out, and a use or take that names it is refused, as
\* not found on a game in play.
ConsumedIsGone ==
    /\ ( /\ last'.op = "use_item" /\ OnGame /\ last'.success
         /\ Consuming(Stored.items[last'.matched[1]]) ) =>
            /\ last'.matched[1] \notin DOMAIN state_key'["g1"][1].items
            /\ \A i \in DOMAIN state_key'["g1"][1].players[PLAYER_ID].inventory :
                  state_key'["g1"][1].players[PLAYER_ID].inventory[i] # last'.matched[1]
    /\ "potion" \notin DOMAIN Stored.items =>
            /\ "potion" \notin DOMAIN state_key'["g1"][1].items
            /\ ( /\ last'.op \in {"use_item", "take_item"} /\ OnGame
                 /\ Lower(last'.arg) = n_potion ) =>
                    /\ ~last'.success
                    /\ InPlay => last'.message \in { "You don't have a {item_name}.",
                                                     "There is no {item_name} here." }

\* C11: after a successful use of an item whose effects consume it, the item
\* is in neither the inventory nor the item table, and every later use or
\* take naming it fails as not found.
C11_ConsumedIsGone == [][ConsumedIsGone]_vars

\* C11 for the calls whose snapshot save the store served
C11_WhenSaved == [][last'.io.save # "failed" => ConsumedIsGone]_vars

\* The potion was used up and a later use of it was refused
C11_Witness ==
    /\ Stored.title = n_vault
    /\ "potion" \notin DOMAIN Stored.items
    /\ last.op = "use_item" /\ last.arg = n_potion /\ ~last.success
    /\ last.message = "You don't have a {item_name}."

\* The room a move in the direction of the call would lead to: Optional id
Ahead ==
    IF StoredPlayer.location \in DOMAIN Stored.rooms
    THEN DictGet(Stored.rooms[StoredPlayer.location].connections, Lower(last'.arg))
    ELSE <<>>

\* The inventory holds an item of that name, without regard to case
Holds(name) ==
    \E i \in DOMAIN StoredPlayer.inventory :
        /\ StoredPlayer.inventory[i] \in DOMAIN Stored.items
        /\ Lower(Stored.items[StoredPlayer.inventory[i]].name) = Lower(name)

\* The room is gated by required_items = ["key"] and nothing else
GatedOnKey(room) ==
    /\ room.access_requirements.keys = {"required_items"}
    /\ room.access_requirements.required_items = <<n_key>>

\* What C12 says of one call: a move into the room gated on the key is
\* refused while no key is held, and the move that follows a successful
\* take of the key is accepted.
KeyOpens ==
    ( /\ last'.op = "move_player" /\ InPlay
      /\ Ahead # <<>> /\ Ahead[1] \in DOMAIN Stored.rooms
      /\ GatedOnKey(Stored.rooms[Ahead[1]]) ) =>
        /\ ~Holds(n_key) =>
              /\ ~last'.success
              /\ last'.message = "You cannot access that room yet."
              /\ state_key' = state_key
        /\ ( /\ last.op = "take_item" /\ last.success
             /\ last.game_id = "g1" /\ last.player_id = PLAYER_ID
             /\ Lower(last.arg) = n_key ) =>
              last'.success

\* C12: a move into a room gated on required_items = ["key"] is rejected in
\* every state where the inventory holds no item named key, and succeeds
\* right after a successful take of the key.
C12_KeyOpens == [][KeyOpens]_vars

\* C12 for the takes whose snapshot save the store served
C12_WhenSaved == [][last.io.save # "failed" => KeyOpens]_vars

\* The player took the key and walked into the armory
C12_Witness ==
    /\ prev.op = "take_item" /\ prev.success /\ prev.arg = n_key /\ prev.save = "ok"
    /\ last.op = "move_player" /\ last.arg = n_north /\ last.success
    /\ last.io.save = "ok"
    /\ StoredPlayer.location = "armory"

\* The call of the step names the lever, and so did the call before it
ThisLever == Lower(last'.arg) = n_lever
ThatLever ==
    /\ last.game_id = "g1" /\ last.player_id = PLAYER_ID
    /\ Lower(last.arg) = n_lever /\ last.success

\* The stored flag vault_open is true
VaultOpen(state) == DictGet(state.global_flags, "vault_open") = <<PyTrue>>

\* What C13 says of one call in the vault scenario, the player being in
\* 'start' on a game in play: the take of the lever lying there succeeds,
\* the use after the take succeeds, the move north after the use succeeds
\* and ends in the vault with the flag set; a move north while the flag is
\* not set is refused as access denied and the player stays.
LeverThenVault ==
    ( /\ Stored.title = n_vault /\ InPlay /\ StoredPlayer.location = "start" ) =>
        /\ ( /\ last'.op = "take_item" /\ ThisLever
             /\ Stored.items["lever"].location = "start" ) =>
                last'.success
        /\ ( /\ last.op = "take_item" /\ ThatLever
             /\ last'.op = "use_item" /\ ThisLever ) =>
                last'.success
        /\ ( /\ last.op = "use_item" /\ ThatLever
             /\ last'.op = "move_player" /\ Lower(last'.arg) = n_north ) =>
                /\ last'.success
                /\ VaultOpen(state_key'["g1"][1])
                /\ state_key'["g1"][1].players[PLAYER_ID].location = "vault"
        /\ ( /\ last'.op = "move_player" /\ Lower(last'.arg) = n_north
             /\ ~VaultOpen(Stored) ) =>
                /\ ~last'.success
                /\ last'.message = "You cannot access that room yet."
                /\ state_key'["g1"][1].players[PLAYER_ID].location = "start"

\* C13: in the vault scenario take(lever), use(lever), move(north) succeed
\* in this order and end with vault_open = true and the player in the vault;
\* a move north before the use of the lever has succeeded is rejected as
\* access denied and the player stays in 'start'.
C13_LeverThenVault == [][LeverThenVault]_vars

\* C13 for the calls whose snapshot save, and that of the call before, the
\* store served
C13_WhenSaved ==
    [][(last.io.save # "failed" /\ last'.io.save # "failed") => LeverThenVault]_vars

\* The player is in the vault, which the lever opened
C13_Witness ==
    /\ Stored.title = n_vault
    /\ last.op = "move_player" /\ last.arg = n_north /\ last.success
    /\ last.room0 = "start"
    /\ VaultOpen(Stored)
    /\ StoredPlayer.location = "vault"

\* The requirements of the room ahead are met by the stored inventory and
\* flags: every required item name is the name of a held item, without
\* regard to case, and every required flag has the required value
RequirementsMet(requirements) ==
    /\ \A i \in DOMAIN requirements.required_items :
          Holds(requirements.required_items[i])
    /\ \A i \in DOMAIN requirements.required_flags :
          DictGet(Stored.global_flags, requirements.required_flags[i].k)
              = <<requirements.required_flags[i].v>>

Unlocks(state, item) ==
    { r \in DOMAIN state.rooms :
        \E i \in DOMAIN item.use_effects :
            /\ item.use_effects[i].k = "unlock_room"
            /\ DictGet(item.use_effects[i].v, "room_id") = <<r>> }

\* What C15 says of one call: a successful use of an unlocking item leaves
\* the named room without requirements; a room without requirements stays
\* without them, and a move along a connection into it succeeds.
UnlockedForGood ==
    /\ ( /\ last'.op = "use_item" /\ OnGame /\ last'.success ) =>
            \A r \in Unlocks(Stored, Stored.items[last'.matched[1]]) :
                state_key'["g1"][1].rooms[r].access_requirements = NoRequirements
    /\ \A r \in DOMAIN Stored.rooms :
            Stored.rooms[r].access_requirements = NoRequirements =>
                /\ r \in DOMAIN state_key'["g1"][1].rooms
                /\ state_key'["g1"][1].rooms[r].access_requirements = NoRequirements
                /\ ( /\ last'.op = "move_player" /\ InPlay /\ Ahead = <<r>> ) =>
                        last'.success

\* C15: after a successful use of an item with an unlock_room effect for an
\* existing room, that room has no access requirements in any later state,
\* and every later move along a connection into it succeeds.
C15_UnlockedForGood == [][UnlockedForGood]_vars

\* C15 for the calls whose snapshot save the store served
C15_WhenSaved == [][last'.io.save # "failed" => UnlockedForGood]_vars

\* The player entered the unlocked crypt without the key
C15_Witness ==
    /\ Stored.title = n_cell
    /\ Stored.rooms["crypt"].access_requirements = NoRequirements
    /\ last.op = "move_player" /\ last.arg = n_east /\ last.success
    /\ last.room0 = "cell" /\ last.io.save = "ok"
    /\ StoredPlayer.location = "crypt"
    /\ ~Holds(n_key)

\* The messages of the domain rejections: unknown direction, access denied,
\* item not in the room, item not held, NPC not there, item not takeable,
\* item not useable
DomainRejections ==
    { "You cannot go {direction} from here.",
      "You cannot access that room yet.",
      "There is no {item_name} here.",
      "You don't have a {item_name}.",
      "There is no {npc_name} here.",
      "You cannot take the {item_name}.",
      "You cannot use the {item_name}." }

\* C16: every domain rejection is returned as a result with success = false
\* and leaves the stored snapshot, the hashes and the event log as they were.
C16_RejectionsChangeNothing ==
    [][ last'.message \in DomainRejections =>
            /\ last'.op \in ActionOps
            /\ ~last'.success
            /\ state_key' = state_key
            /\ logs_key' = logs_key
            /\ hash_key' = hash_key
            /\ now' = now ]_vars

\* The use of the key, which is held and not useable, was refused
C16_Witness ==
    /\ Stored.title = n_cell
    /\ last.op = "use_item" /\ last.arg = n_key /\ last.matched = <<"key">>
    /\ ~last.success /\ last.message = "You cannot use the {item_name}."
    /\ Holds(n_key)

\* What the caller of an action receives
Outcome(out) == [success |-> out.result.success, message |-> out.result.message]

\* The outcomes of the five actions called now, with the store working, on
\* game game_id by player player_id: one per action and argument
OutcomesOf(game_id, player_id) ==
    [ move |-> [d \in DirectionInputs |->
                   Outcome(move_player(Db, now, game_id, player_id, d, NoFault))],
      take |-> [n \in ItemInputs |->
                   Outcome(take_item(Db, now, game_id, player_id, n, NoFault))],
      drop |-> [n \in ItemInputs |->
                   Outcome(drop_item(Db, now, game_id, player_id, n, NoFault))],
      use  |-> [n \in ItemInputs |->
                   Outcome(use_item(Db, now, game_id, player_id, n, NoFault))],
      talk |-> [n \in NpcInputs |->
                   Outcome(talk_to_npc(Db, now, game_id, player_id, n, NoFault))] ]

\* Two families of outcomes that agree on no call
Distinct(a, b) ==
    /\ \A d \in DirectionInputs : a.move[d] # b.move[d]
    /\ \A n \in ItemInputs :
          a.take[n] # b.take[n] /\ a.drop[n] # b.drop[n] /\ a.use[n] # b.use[n]
    /\ \A n \in NpcInputs : a.talk[n] # b.talk[n]

\* No outcome of the family is a domain rejection
NoDomainRejection(a) ==
    /\ \A d \in DirectionInputs : a.move[d].message \notin DomainRejections
    /\ \A n \in ItemInputs :
          /\ a.take[n].message \notin DomainRejections
          /\ a.drop[n].message \notin DomainRejections
          /\ a.use[n].message \notin DomainRejections
    /\ \A n \in NpcInputs : a.talk[n].message \notin DomainRejections

\* C17: an action on an unknown game id (g2), on an ended game (g1 once it
\* is ended) and by an unknown player id (player_2 on g1 while it is active)
\* have pairwise different outcomes, none of which is a domain rejection.
C17_ThreeOutcomes ==
    /\ state_key["g2"] = <<>>
    /\ NoDomainRejection(OutcomesOf("g2", PLAYER_ID))
    /\ ~Stored.active =>
          /\ NoDomainRejection(OutcomesOf("g1", PLAYER_ID))
          /\ Distinct(OutcomesOf("g1", PLAYER_ID), OutcomesOf("g2", PLAYER_ID))
    /\ Stored.active =>
          /\ NoDomainRejection(OutcomesOf("g1", "player_2"))
          /\ Distinct(OutcomesOf("g1", "player_2"), OutcomesOf("g2", PLAYER_ID))

\* The outcomes of a family, as a set
OutcomeSet(a) ==
    { a.move[d] : d \in DirectionInputs }
        \cup { a.take[n] : n \in ItemInputs } \cup { a.drop[n] : n \in ItemInputs }
        \cup { a.use[n] : n \in ItemInputs } \cup { a.talk[n] : n \in NpcInputs }

\* C18: when the load of the snapshot fails during an action (the store is
\* unreachable or the snapshot cannot be parsed), the caller's outcome is
\* none of the outcomes of an unknown game id and no domain rejection.
C18_LoadFailureIsTold ==
    [][ (last'.op \in ActionOps /\ last'.io.load = "failed") =>
            /\ [success |-> last'.success, message |-> last'.message]
                  \notin OutcomeSet(OutcomesOf("g2", PLAYER_ID))
            /\ last'.message \notin DomainRejections ]_vars

\* The stored log of the game
StoredLog == logs_key["g1"]

NewestUpToLimit ==
    /\ last'.value[1] = SubSeq(StoredLog, 1, Min(last'.arg, Len(StoredLog)))
    /\ Len(last'.value[1]) <= last'.arg \/ last'.value[1] = <<>>
    /\ StoredLog = <<>> => last'.value[1] = <<>>

\* C20: for every integer limit, get_game_history returns the newest
\* min(limit, stored) entries, the most recent first, and an empty sequence
\* when the game has no log.
C20_NewestUpToLimit ==
    [][ (last'.op = "get_game_history" /\ last'.io.load = "ok") => NewestUpToLimit ]_vars

\* C20 for the limits from 1 on
C20_PositiveLimit ==
    [][ (last'.op = "get_game_history" /\ last'.io.load = "ok" /\ last'.arg >= 1)
            => NewestUpToLimit ]_vars

\* Nothing is stored under the game id: no snapshot, no log, no hash
NothingStored(db, g) ==
    /\ ~game_exists(db, g)
    /\ load_game_state(db, g, NoFault) = <<>>
    /\ get_game_history(db, g, HISTORY_LIMIT) = <<>>
    /\ db.logs[g] = <<>>
    /\ db.hash[g] = NoHashes

\* What C21 says of a delete_game call that the store served
DeletedAndIdempotent ==
    /\ last'.success
    /\ NothingStored(Db', last'.game_id)
    /\ NothingStored(Db, last'.game_id) => Db' = Db

\* C21: delete_game removes the snapshot, the event log and every auxiliary
\* key of the game, so that afterwards the game does not exist, does not load
\* and has an empty history; deleting a game that is not stored succeeds and
\* changes nothing.
C21_DeleteRemovesGame ==
    [][ (last'.op = "delete_game" /\ ~Faulted(last'.io)) => DeletedAndIdempotent ]_vars

\* keys() finds the keys of the game and of no other game
FindsOwnKeys(game_id) ==
    \A g \in StoreIds :
        \A suffix \in {k_state, k_logs, k_rooms, k_items, k_npcs, k_players, k_flags} :
            KeyFound(game_id, g, suffix) <=> g = game_id

\* C21 for the calls in which keys() finds the keys of the game only
C21_WhenOwnKeys ==
    [][ (/\ last'.op = "delete_game" /\ ~Faulted(last'.io)
         /\ FindsOwnKeys(last'.game_id))
            => DeletedAndIdempotent ]_vars

\* A stored game with a log was deleted, and then deleted again
C21_Deleted ==
    /\ last.op = "delete_game" /\ last.success /\ last.game_id = id_ab
    /\ ~last.changed
    /\ NothingStored(Db, id_ab)
    /\ calls = 4

\* The store with the keys of every game but g removed
Only(db, g) ==
    [ state |-> [h \in DOMAIN db.state |-> IF h = g THEN db.state[h] ELSE <<>>],
      logs  |-> [h \in DOMAIN db.logs |-> IF h = g THEN db.logs[h] ELSE <<>>],
      hash  |-> [h \in DOMAIN db.hash |-> IF h = g THEN db.hash[h] ELSE NoHashes] ]

\* The thread that takes the step, and its record when it takes it
Stepping == last'.value[1]
Before ==
    IF last'.value[2] = "call"
    THEN [inflight'[Stepping] EXCEPT !.pc = "call", !.loaded = <<>>,
                                     !.snapshot = <<>>, !.action = "",
                                     !.message = <<>>]
    ELSE inflight[Stepping]

\* The step leaves the keys of every other game as they were, and does to
\* the keys of its game and returns to its thread what it does when the
\* store holds that game alone
IndependentStep ==
    LET g     == Before.game_id
        alone == StepOf(Only(Db, g), now, Before)
    IN  /\ \A h \in GameIds \ {g} :
              /\ state_key'[h] = state_key[h]
              /\ logs_key'[h] = logs_key[h]
              /\ hash_key'[h] = hash_key[h]
        /\ state_key'[g] = alone.db.state[g]
        /\ logs_key'[g] = alone.db.logs[g]
        /\ hash_key'[g] = alone.db.hash[g]
        /\ inflight'[Stepping] = alone.th
        /\ now' = alone.now

\* C22: actions on different game ids are independent.  Every store command
\* of a call on one game leaves the snapshot, hashes and log of the other
\* game unchanged and has the effect it has when its game is the only one
\* stored, so that under every interleaving each game ends as it does when
\* its calls run alone.
C22_GamesIndependent == [][IndependentStep]_vars

\* Two calls on different games are in flight at once: one has loaded and
\* not saved, the other has saved and not logged
C22_Witness ==
    /\ inflight["t1"].pc = "save" /\ inflight["t1"].game_id = "g1"
    /\ inflight["t2"].pc = "log" /\ inflight["t2"].game_id = "g2"
    /\ StoredTurn("g2") = 2

\* Threads t and u have both returned from calls on one game that loaded the
\* same snapshot and both saved, u after t
LostUpdate(t, u) ==
    /\ t # u
    /\ inflight[t].pc = "done" /\ inflight[u].pc = "done"
    /\ inflight[t].game_id = inflight[u].game_id
    /\ inflight[t].loaded = inflight[u].loaded
    /\ inflight[t].over # <<>>
    /\ inflight[u].over = inflight[t].snapshot

\* C23: when two mutating calls on one game both load the snapshot before
\* either saves, both return success, the stored snapshot is the one the
\* later saver computed from what it loaded (the other call's effect is not
\* in it) and current_turn is one more than the loaded turn, not two.
C23_LastSaveWins ==
    \A t, u \in Threads :
        LostUpdate(t, u) =>
            /\ inflight[t].success /\ inflight[u].success
            /\ state_key[inflight[u].game_id] = inflight[u].snapshot
            /\ inflight[u].snapshot[1].current_turn = inflight[u].loaded[1].current_turn + 1
            /\ StoredTurn(inflight[u].game_id) = inflight[t].loaded[1].current_turn + 1

\* A take and a move on the gems game raced, the move saved last: the player
\* is in the yard with empty hands, the gem lies in the hall, and the turn is 1
C23_Witness ==
    /\ LostUpdate("t1", "t2")
    /\ inflight["t2"].raced
    /\ inflight["t1"].game_id = "g2"
    /\ inflight["t1"].op = "take_item" /\ inflight["t2"].op = "move_player"
    /\ state_key["g2"][1].players[PLAYER_ID].location = "yard"
    /\ state_key["g2"][1].players[PLAYER_ID].inventory = <<>>
    /\ state_key["g2"][1].rooms["hall"].items = <<"gem1", "gem2", "gem3">>
    /\ state_key["g2"][1].current_turn = 1
    /\ Len(logs_key["g2"]) = 3

\* The three operations that only read
ReadOps == {"look_around", "check_inventory", "get_available_actions"}

\* C24: look_around, check_inventory and get_available_actions are pure
\* reads: in every state, whatever they return, the stored snapshot (with
\* current_turn and last_action_at), the hashes and the event log are as
\* before the call.
C24_ReadsArePure ==
    [][ last'.op \in ReadOps =>
            /\ state_key' = state_key
            /\ logs_key' = logs_key
            /\ hash_key' = hash_key ]_vars

\* The inventory was listed after the player had taken something
C24_Witness ==
    /\ last.op = "check_inventory" /\ last.success
    /\ last.game_id = "g1"
    /\ last.value[1] # <<>>
    /\ StoredTurn("g1") = 2

\* The sequences of a sequence, one after the other
RECURSIVE Flatten(_)
Flatten(seqs) == IF seqs = <<>> THEN <<>> ELSE Head(seqs) \o Flatten(Tail(seqs))

\* The list C25 describes, for the player of a snapshot
ListedActions(state, player_id) ==
    LET player == state.players[player_id]
        room   == state.rooms[player.location]
        go     == [i \in DOMAIN room.connections |->
                     [verb |-> "go", arg |-> room.connections[i].k]]
        take   == Flatten([i \in DOMAIN room.items |->
                     IF room.items[i] \in DOMAIN state.items
                        /\ state.items[room.items[i]].takeable
                     THEN << [verb |-> "take", arg |-> state.items[room.items[i]].name] >>
                     ELSE <<>>])
        carry  == Flatten([i \in DOMAIN player.inventory |->
                     IF player.inventory[i] \notin DOMAIN state.items THEN <<>>
                     ELSE LET item == state.items[player.inventory[i]]
                          IN  IF item.useable
                              THEN << [verb |-> "drop", arg |-> item.name],
                                      [verb |-> "use", arg |-> item.name] >>
                              ELSE << [verb |-> "drop", arg |-> item.name] >>])
        talk   == Flatten([i \in DOMAIN room.npcs |->
                     IF room.npcs[i] \in DOMAIN state.npcs
                     THEN << [verb |-> "talk to", arg |-> state.npcs[room.npcs[i]].name] >>
                     ELSE <<>>])
    IN  << [verb |-> "look around", arg |-> <<>>] >> \o go \o take \o carry \o talk
            \o << [verb |-> "check inventory", arg |-> <<>>] >>

\* C25: on an active game get_available_actions returns exactly "look
\* around", one "go d" per connection of the room, one "take i" per takeable
\* item of the room in room order, per inventory item in order "drop i" and
\* then "use i" if it is useable, one "talk to n" per NPC of the room, and
\* "check inventory"; the list is a function of the stored snapshot, so two
\* calls on one state return the same list.
C25_ActionsListed ==
    [][ (last'.op = "get_available_actions" /\ InPlay) =>
            last'.value = <<ListedActions(Stored, PLAYER_ID)>> ]_vars

\* The list in the vault game after the lever was taken
C25_Witness ==
    /\ last.op = "get_available_actions" /\ last.success
    /\ last.value[1] = << [verb |-> "look around", arg |-> <<>>],
                          [verb |-> "go", arg |-> n_north],
                          [verb |-> "take", arg |-> n_potion],
                          [verb |-> "drop", arg |-> n_Lever],
                          [verb |-> "use", arg |-> n_Lever],
                          [verb |-> "talk to", arg |-> n_Guard],
                          [verb |-> "check inventory", arg |-> <<>>] >>

\* What C26 says of the game a start_new_game call returned the id of
StartedAsConfigured ==
    LET g   == last'.game_id
        cfg == last'.arg[1]
    IN  /\ g # ""
        /\ state_key'[g] # <<>>
        /\ state_key'[g][1].current_turn = 0
        /\ state_key'[g][1].active
        /\ DOMAIN state_key'[g][1].players = {PLAYER_ID}
        /\ state_key'[g][1].players[PLAYER_ID].inventory = <<>>
        /\ state_key'[g][1].players[PLAYER_ID].location =
              IF cfg.start_room # <<>> THEN cfg.start_room[1] ELSE cfg.rooms[1].id
        /\ Len(logs_key'[g]) = 1
        /\ logs_key'[g][1].action = "start_game"

\* C26: after start_new_game returns a game id, the snapshot stored under
\* that id has current_turn 0, is active and has exactly one player, with an
\* empty inventory, in the scenario's start_room (the first declared room
\* when none is given), and the log of that id holds exactly one entry, of
\* kind start_game.
C26_StartedAsConfigured ==
    [][ (last'.op = "start_new_game" /\ last'.success) => StartedAsConfigured ]_vars

\* C26 for the calls in which no store command raised
C26_WhenSaved ==
    [][ (last'.op = "start_new_game" /\ last'.success /\ ~Faulted(last'.io))
            => StartedAsConfigured ]_vars

\* A game without a start_room was started after another game
C26_Started ==
    /\ last.op = "start_new_game" /\ last.game_id = "g2" /\ ~Faulted(last.io)
    /\ last.arg[1] = ScenarioGems
    /\ state_key["g2"][1].players[PLAYER_ID].location = "hall"
    /\ state_key["g1"] # <<>>

\* C27: start_new_game returns an empty id exactly when saving the initial
\* snapshot failed: a failed save never yields a game id, and a game id is
\* returned only if the snapshot loads under it.
C27_EmptyIdOnFailure ==
    [][ last'.op = "start_new_game" =>
            /\ last'.game_id = "" <=> last'.io.save # "ok"
            /\ last'.game_id # "" =>
                  load_game_state(Db', last'.game_id, NoFault) # <<>> ]_vars

\* C27 for the calls in which no store command raised
C27_WhenSaved ==
    [][ (last'.op = "start_new_game" /\ ~Faulted(last'.io)) =>
            /\ last'.game_id # ""
            /\ load_game_state(Db', last'.game_id, NoFault) # <<>> ]_vars

\* The hashes of a game hold exactly the tables and flags of its snapshot
HashesMirror(db, g) ==
    LET state == db.state[g][1]
    IN  /\ db.hash[g].rooms = state.rooms
        /\ db.hash[g].items = state.items
        /\ db.hash[g].npcs = state.npcs
        /\ db.hash[g].players = state.players
        /\ db.hash[g].flags = AsMapping(state.global_flags)

\* The hashes of a game hold the entities and flags of its snapshot, and
\* maybe more
HashesCover(db, g) ==
    LET state == db.state[g][1]
        Covers(h, table) == \A k \in DOMAIN table : k \in DOMAIN h /\ h[k] = table[k]
    IN  /\ Covers(db.hash[g].rooms, state.rooms)
        /\ Covers(db.hash[g].items, state.items)
        /\ Covers(db.hash[g].npcs, state.npcs)
        /\ Covers(db.hash[g].players, state.players)
        /\ Covers(db.hash[g].flags, AsMapping(state.global_flags))

\* C28: after every save of an engine action the hashes of rooms, items,
\* npcs and players hold exactly the ids and values of the snapshot's tables
\* and the flags hash exactly global_flags, nothing being left from earlier
\* saves: an item removed by a consume effect is not in the items hash.
C28_HashesMirrorSnapshot ==
    [][ (last'.op \in WritingOps /\ last'.game_id = "g1" /\ last'.io.save = "ok")
            => HashesMirror(Db', "g1") ]_vars

\* After every such save the hashes hold at least the snapshot's entities
C28_HashesCoverSnapshot ==
    [][ (last'.op \in WritingOps /\ last'.game_id = "g1" /\ last'.io.save = "ok")
            => HashesCover(Db', "g1") ]_vars

\* The potion was consumed and saved, and is still in the items hash
C28_StaleItem ==
    /\ last.op = "use_item" /\ last.success /\ last.io.save = "ok"
    /\ "potion" \notin DOMAIN Stored.items
    /\ "potion" \in DOMAIN hash_key["g1"].items

\* The dialogue_state of every NPC of the stored snapshot
DialogueStates(db) ==
    [n \in DOMAIN db.state["g1"][1].npcs |-> db.state["g1"][1].npcs[n].dialogue_state]

\* What C29 says of a step: a successful talk moves the NPC to the
\* next_state of its node, or leaves it when the node has none or the state
\* is not in the tree, where the reply is "Hello there!"; the other writing
\* operations leave every NPC's dialogue_state as it was
DialogueProgress ==
    IF last'.op = "talk_to_npc"
    THEN LET n    == last'.matched[1]
             npc  == Stored.npcs[n]
             node == DictGet(npc.dialogue_tree, npc.dialogue_state)
             to   == IF node # <<>> /\ node[1].next_state # <<>>
                     THEN node[1].next_state[1] ELSE npc.dialogue_state
         IN  /\ DialogueStates(Db') = [DialogueStates(Db) EXCEPT ![n] = to]
             /\ node = <<>> => last'.value = <<n_hello>>
    ELSE DialogueStates(Db') = DialogueStates(Db)

\* C29: every successful talk to an NPC whose state is in its tree and
\* whose node has a next_state sets dialogue_state to it; without next_state
\* the state stays; when the state is not in the tree the reply is "Hello
\* there!" and the state stays; move, take, drop, use and end_game never
\* change a dialogue_state.
C29_DialogueProgress ==
    [][ (last'.op \in WritingOps /\ last'.success /\ OnGame) => DialogueProgress ]_vars

\* C29 for the calls whose save was served
C29_WhenSaved ==
    [][ (last'.op \in WritingOps /\ last'.success /\ OnGame /\ last'.io.save = "ok")
            => DialogueProgress ]_vars

\* The sage was talked to twice: the first talk moved it to a state that is
\* not in its tree, the second was answered "Hello there!" and left it there
C29_Talked ==
    /\ last.op = "talk_to_npc" /\ last.success /\ last.matched = <<"sage">>
    /\ last.io.save = "ok"
    /\ last.value = <<n_hello>>
    /\ Stored.npcs["sage"].dialogue_state = "gone"
    /\ Stored.npcs["guard"].dialogue_state = "greet"
    /\ Stored.current_turn = 3

\* The effect kinds that use_item knows, and the effects of these kinds
KnownEffects == {"unlock_room", "set_flag", "consume"}
Known(use_effects) == SelectSeq(use_effects, LAMBDA e : e.k \in KnownEffects)

\* The item that the call of the step resolved to has an effect of a kind
\* that use_item does not know
UsesUnknownEffect ==
    /\ last'.op = "use_item" /\ InPlay /\ last'.matched # <<>>
    /\ Stored.items[last'.matched[1]].useable
    /\ Known(Stored.items[last'.matched[1]].use_effects)
          # Stored.items[last'.matched[1]].use_effects

\* The use succeeded, the turn went up by one and the snapshot is the one
\* that the item's known effects alone produce
UnknownIgnored ==
    /\ last'.success
    /\ state_key'["g1"] # <<>>
    /\ state_key'["g1"][1].current_turn = Stored.current_turn + 1
    /\ state_key'["g1"][1] =
          [ApplyUseEffects(Stored, PLAYER_ID, last'.matched[1],
                           Known(Stored.items[last'.matched[1]].use_effects), 1)
              EXCEPT !.current_turn = Stored.current_turn + 1,
                     !.last_action_at = now]

\* C30: a use of a useable inventory item that has an effect of a kind
\* other than unlock_room, set_flag and consume succeeds and advances
\* current_turn by 1, and rooms, flags, inventory and item table are as if
\* that effect were not there.  The use is one whose save the store served.
C30_UnknownEffectIgnored ==
    [][ (UsesUnknownEffect /\ last'.io.save = "ok") => UnknownIgnored ]_vars

\* The potion, which glows and is consumed, was used: it is gone and the
\* flags are as they were
C30_Witness ==
    /\ last.op = "use_item" /\ last.success /\ last.matched = <<"potion">>
    /\ last.io.save = "ok"
    /\ "potion" \notin DOMAIN Stored.items
    /\ StoredPlayer.inventory = <<>>
    /\ Stored.global_flags = EmptyDict
    /\ Stored.current_turn = 2

\* The messages of the (up to) MAJOR_EVENTS newest entries of a log, newest
\* first, whose action kind is use, talk or start_game
MajorOf(log) ==
    LET major == SelectSeq(log, LAMBDA e : e.action \in {"use", "talk", "start_game"})
    IN  [i \in 1..Min(Len(major), MAJOR_EVENTS) |-> major[i].message]

\* C31: the major_events of the summary that end_game returns are the
\* messages of the (up to) 10 most recent entries of the game's whole stored
\* log whose action kind is use, talk or start_game, whatever the length of
\* the log
C31_MajorEvents ==
    [][ (last'.op = "end_game" /\ last'.success)
            => last'.value[1].major_events = MajorOf(logs_key["g1"]) ]_vars

\* C31 for the logs of at most HISTORY_LIMIT entries
C31_ShortLog ==
    [][ (last'.op = "end_game" /\ last'.success /\ Len(logs_key["g1"]) <= HISTORY_LIMIT)
            => last'.value[1].major_events = MajorOf(logs_key["g1"]) ]_vars

\* The game was ended after more than HISTORY_LIMIT calls: the summary has
\* the messages of the two latest uses and not that of the start
C31_LongGame ==
    /\ last.op = "end_game" /\ last.success
    /\ Len(logs_key["g1"]) > HISTORY_LIMIT + 1
    /\ Len(last.value[1].major_events) = 2

\* The newest entry of the log of g1 is an end_game entry
EndLogged == logs_key["g1"] # <<>> /\ logs_key["g1"][1].action = "end_game"

\* C32: once end_game has appended its end_game entry, that entry stays the
\* newest of the log: no later operation on the game, a further end_game
\* included, appends anything to the log
C32_EndEntryIsLast ==
    [][ (EndLogged /\ last'.game_id = "g1") => logs_key'["g1"] = logs_key["g1"] ]_vars

\* C32 for the operations other than end_game on a game that was ended
C32_ButEndGame ==
    [][ (EndLogged /\ ~Stored.active /\ last'.game_id = "g1" /\ last'.op # "end_game")
            => logs_key'["g1"] = logs_key["g1"] ]_vars

\* The game was ended twice and the log holds two end_game entries
C32_EndedTwice ==
    /\ last.op = "end_game" /\ last.success /\ ~Faulted(last.io)
    /\ Len(logs_key["g1"]) >= 2
    /\ logs_key["g1"][1].action = "end_game"
    /\ logs_key["g1"][2].action = "end_game"

\* An id of the list ids is in the table and has the name, whatever the case
Named(ids, table, name) ==
    \E i \in DOMAIN ids :
        ids[i] \in DOMAIN table /\ Lower(table[ids[i]].name) = Lower(name)

\* The containers that list the item id: rooms and players
Holders(s, id) ==
    { r \in DOMAIN s.rooms : \E i \in DOMAIN s.rooms[r].items : s.rooms[r].items[i] = id }
        \cup { p \in DOMAIN s.players :
                 \E i \in DOMAIN s.players[p].inventory : s.players[p].inventory[i] = id }

\* Every item but id is listed where it was and located where it was
OthersStay(s, t, id) ==
    \A other \in (DOMAIN s.items \cup DOMAIN t.items) \ {id} :
        /\ other \in DOMAIN s.items /\ other \in DOMAIN t.items
        /\ Holders(t, other) = Holders(s, other)
        /\ t.items[other].location = s.items[other].location

\* C33: a take succeeds only if an item of that name (whatever the case) is
\* in the items list of the player's room, a drop or use only if such an item
\* is in the inventory, a talk only if an NPC of that name is in the npcs
\* list of the room; a successful take, drop or use changes the containers
\* and the location of no item but the matched one
C33_ActionScoping ==
    [][ (OnGame /\ last'.success) =>
          /\ last'.op = "take_item" =>
                Named(Stored.rooms[StoredPlayer.location].items, Stored.items, last'.arg)
          /\ last'.op \in {"drop_item", "use_item"} =>
                Named(StoredPlayer.inventory, Stored.items, last'.arg)
          /\ last'.op = "talk_to_npc" =>
                Named(Stored.rooms[StoredPlayer.location].npcs, Stored.npcs, last'.arg)
          /\ last'.op \in {"take_item", "drop_item", "use_item"} =>
                /\ last'.matched # <<>>
                /\ OthersStay(Stored, state_key'["g1"][1], last'.matched[1]) ]_vars

\* The potion was used and consumed while the lever is held too, after the
\* player took the two in the start room
C33_Witness ==
    /\ last.op = "use_item" /\ last.success /\ last.io.save = "ok"
    /\ last.matched = <<"potion">>
    /\ Holders(Stored, "lever") = {PLAYER_ID}
    /\ Holders(Stored, "potion") = {}

\* The last call was a move of the player of g1 along a connection of the
\* room they stood in whose target is not in the room table
MovedToMissingRoom ==
    /\ last.op = "move_player" /\ last.game_id = "g1" /\ last.player_id = PLAYER_ID
    /\ last.room0 \in DOMAIN Stored.rooms
    /\ LET target_room_id == ResolveDirection(Stored.rooms[last.room0], last.arg)
       IN  target_room_id # <<>> /\ target_room_id[1] \notin DOMAIN Stored.rooms

\* C34: the start room being in the room table, the player's location is a
\* key of the room table after every sequence of engine operations; a move
\* along a connection whose target is not in the room table is rejected and
\* leaves location and current_turn as they were
C34_LocationIsRoom ==
    /\ StoredPlayer.location \in DOMAIN Stored.rooms
    /\ MovedToMissingRoom =>
          /\ ~last.success
          /\ StoredPlayer.location = last.room0
          /\ Stored.current_turn = last.turn0

\* After a take, the player tried to go west from the hall to the attic,
\* which is not in the room table
C34_Witness ==
    /\ MovedToMissingRoom
    /\ last.arg = n_west /\ last.io.load = "ok"
    /\ last.message = "Target room not found"
    /\ StoredPlayer.location = "hall"
    /\ Stored.current_turn = 1

\* The update_entity call of the step names an entity that is in the table
\* of its type in the stored snapshot of its game
UpdatesKnownEntity ==
    /\ last'.op = "update_entity"
    /\ state_key[last'.game_id] # <<>>
    /\ last'.arg.id \in DOMAIN state_key[last'.game_id][1][last'.arg.type]

\* The hash entry of the entity is the entity of the snapshot, which is the
\* earlier one with the fields of data applied
EntityRederived ==
    LET g == last'.game_id
        u == last'.arg
    IN  /\ u.id \in DOMAIN hash_key'[g][u.type]
        /\ hash_key'[g][u.type][u.id] = state_key'[g][1][u.type][u.id]
        /\ state_key'[g][1][u.type][u.id]
              = ModelCopy(state_key[g][1][u.type][u.id], u.data)

\* C35: after update_entity(g, type, id, data) the hash entry of id is the
\* entity of g's snapshot with the fields of data applied; when g has no
\* snapshot or id is not in the snapshot's table of that type, update_entity
\* writes nothing to the store
C35_UpdateRederives ==
    [][ last'.op = "update_entity" =>
          IF UpdatesKnownEntity THEN EntityRederived ELSE Db' = Db ]_vars

\* C35 for the entities that are in the snapshot
C35_KnownEntity ==
    [][ UpdatesKnownEntity => EntityRederived ]_vars

\* update_entity was called on g2, which has no snapshot, and the items hash
\* of g2 holds the data
C35_Orphan ==
    /\ last.op = "update_entity" /\ last.game_id = "g2"
    /\ state_key["g2"] = <<>>
    /\ hash_key["g2"].items # EmptyHash

\* The kinds of the entries that the five player actions log
TurnKinds == {"move", "take", "drop", "use", "talk"}

\* The log of g1, newest first, against the stored turn: as many entries of
\* the player actions as turns, the k-th oldest of them of turn k, and no
\* entry of a higher turn below one of a lower turn
LogMatchesTurns ==
    LET log == logs_key["g1"]
        acted == SelectSeq(log, LAMBDA e : e.action \in TurnKinds)
    IN  /\ Len(acted) = Stored.current_turn
        /\ \A i \in DOMAIN acted : acted[i].turn = Len(acted) - i + 1
        /\ \A i \in DOMAIN log : i > 1 => log[i - 1].turn >= log[i].turn

\* C36: in sequential runs without store failures, while the log is below
\* its cap, the log entries of kind move, take, drop, use or talk are as many
\* as current_turn, the k-th of them (oldest first) has turn k, a failed
\* action and a read-only operation append no entry, and the turns do not
\* decrease from the oldest entry to the newest
C36_LogFollowsTurns ==
    [][ /\ Len(logs_key["g1"]) < LOG_KEEP => LogMatchesTurns
        /\ Len(logs_key'["g1"]) < LOG_KEEP => LogMatchesTurns'
        /\ ( \/ last'.op \in ReadOps
             \/ last'.op \in ActionOps /\ ~last'.success ) => logs_key' = logs_key ]_vars

\* Three player actions were logged with the turns 3, 2, 1 above the
\* start_game entry of turn 0
C36_Witness ==
    /\ Len(logs_key["g1"]) = 4
    /\ \A i \in 1..3 : /\ logs_key["g1"][i].action \in TurnKinds
                       /\ logs_key["g1"][i].turn = 4 - i
    /\ logs_key["g1"][4].action = "start_game" /\ logs_key["g1"][4].turn = 0
    /\ Stored.current_turn = 3

\* Thread t takes the step that appends the log entry of its call
Logging(t) ==
    /\ inflight[t].pc = "log" /\ inflight'[t].pc = "done"
    /\ last'.value = <<t, "log">>
    /\ Len(logs_key'[inflight[t].game_id]) = Len(logs_key[inflight[t].game_id]) + 1

\* C37: under every interleaving of two actions on one game, the log entry
\* written for a successful action carries the turn that this action wrote to
\* the snapshot, never the turn that the other action produced between the
\* save and the log append
C37_EntryHasOwnTurn ==
    [][ \A t \in Threads :
          Logging(t) =>
              logs_key'[inflight[t].game_id][1].turn
                  = inflight[t].snapshot[1].current_turn ]_vars

\* What the code does: the entry carries the turn of the snapshot that is
\* stored when the entry is appended
C37_TurnWhenLogged ==
    [][ \A t \in Threads :
          Logging(t) =>
              logs_key'[inflight[t].game_id][1].turn
                  = state_key[inflight[t].game_id][1].current_turn ]_vars

\* A call that saved turn 1 has logged its entry with turn 2, which the
\* other call saved in between
C37_ForeignTurn ==
    \E t \in Threads :
        /\ inflight[t].pc = "done" /\ inflight[t].success
        /\ last.value = <<t, "log">>
        /\ inflight[t].snapshot[1].current_turn = 1
        /\ logs_key[inflight[t].game_id][1].turn = 2

\* The step leaves snapshot, hashes and log of game g as they were
Untouched(g) ==
    /\ state_key'[g] = state_key[g]
    /\ hash_key'[g] = hash_key[g]
    /\ logs_key'[g] = logs_key[g]

\* C38: delete_game(g) touches game g only: the snapshot, the hashes and the
\* log of every other game id are unchanged, also of an id that extends g
\* by a suffix after a colon, and whatever characters g contains
C38_DeleteTouchesOwnGame ==
    [][ last'.op = "delete_game" =>
            \A g2 \in StoreIds \ {last'.game_id} : Untouched(g2) ]_vars

\* C38 for the games none of whose keys the pattern of the call matches
C38_UnmatchedGames ==
    [][ last'.op = "delete_game" =>
            \A g2 \in StoreIds \ {last'.game_id} :
                (\A suffix \in {k_state, k_logs, k_rooms, k_items, k_npcs,
                                k_players, k_flags} :
                     ~KeyFound(last'.game_id, g2, suffix))
                    => Untouched(g2) ]_vars

\* The step is a start_new_game call of the server, or an
\* initialize_game_engine call that created a game
ServerStarted ==
    /\ last'.op \in {"server_start_new_game", "initialize_game_engine"}
    /\ last'.value # <<>>

\* The snapshot under the fixed id names that id, and nothing is stored
\* under the generated id
SnapshotMoved ==
    /\ state_key'[current_game_id] # <<>>
    /\ state_key'[current_game_id][1].game_id = current_game_id
    /\ state_key'[current_game_id][1].title = last'.arg[1].title
    /\ state_key'[current_game_id][1].current_turn = 0
    /\ NothingStored(Db', last'.value[1])

\* The log under the fixed id has the start_game entry of the new game
StartLogged ==
    \E i \in DOMAIN logs_key'[current_game_id] :
        /\ logs_key'[current_game_id][i].action = "start_game"
        /\ logs_key'[current_game_id][i].timestamp >= now
        /\ logs_key'[current_game_id][i].message.args = <<last'.arg[1].title>>

\* C39: after the server's start_new_game tool, and after
\* initialize_game_engine has created a game, the snapshot stored under the
\* server's fixed game id has that id as game_id, nothing is left under the
\* generated id, and the event log under the fixed id holds the start_game
\* entry of the new game
C39_ServerGameComplete ==
    [][ ServerStarted => (SnapshotMoved /\ StartLogged) ]_vars

\* C39 without the event log
C39_SnapshotMoved ==
    [][ ServerStarted => SnapshotMoved ]_vars

\* A game was started by the tool after the earlier one had been played:
\* the log of the server's game is empty
C39_EmptyLog ==
    /\ last.op = "server_start_new_game"
    /\ calls = 3
    /\ state_key[current_game_id] # <<>>
    /\ logs_key[current_game_id] = <<>>

\* The snapshot after the step differs from the one before in the player's
\* location, current_turn and last_action_at at most, and the log has one
\* more entry, of kind move
MoveFrame ==
    LET after == state_key'["g1"][1]
    IN  /\ after = [Stored EXCEPT
                      !.players[PLAYER_ID].location = after.players[PLAYER_ID].location,
                      !.current_turn = after.current_turn,
                      !.last_action_at = after.last_action_at]
        /\ Len(logs_key'["g1"]) = Len(logs_key["g1"]) + 1
        /\ logs_key'["g1"][1].action = "move"
        /\ SubSeq(logs_key'["g1"], 2, Len(logs_key'["g1"])) = logs_key["g1"]

\* C40: a successful move changes only player.location, current_turn and
\* last_action_at in the snapshot and appends exactly one log entry of kind
\* move; the rooms' items, npcs and access_requirements, the inventory, the
\* item table, global_flags and every dialogue_state are unchanged
C40_MoveFrame ==
    [][ (last'.op = "move_player" /\ OnGame /\ last'.success) => MoveFrame ]_vars

\* C40 for the moves all of whose store commands were served
C40_WhenStored ==
    [][ (last'.op = "move_player" /\ OnGame /\ last'.success /\ ~Faulted(last'.io))
            => MoveFrame ]_vars

\* The player went north to the yard while holding a gem
C40_Moved ==
    /\ last.op = "move_player" /\ last.success /\ ~Faulted(last.io)
    /\ StoredPlayer.location = "yard"
    /\ StoredPlayer.inventory # <<>>
    /\ logs_key["g1"][1].action = "move"

====
